---- MODULE Spec2Model ----
(***************************************************************************)
(* The Gauntlet session engine of kana-dojo (src/unnamed/part_004, the     *)
(* Gauntlet component): question queue, life budget, counters, the phase   *)
(* machine pregame -> playing -> results and the asynchronous end of a     *)
(* session (endGame awaits saveSession before it shows the results).       *)
(*                                                                         *)
(* One action is one event handler of the component, run on the state the  *)
(* last render committed.  Presentation-only state (lastAnswerCorrect,     *)
(* lifeJustGained, lifeJustLost, wrongSelectedAnswers, isCelebrating,      *)
(* isNewBest, sounds) is not modelled; the repetitionNumber of a queue     *)
(* entry is written at line 97 and never read, so an entry is modelled by  *)
(* its item and its index.  The component reads sessionStats only for      *)
(* being null or not (line 721): the variable holds that, and the stats    *)
(* objects endGame builds are kept in sessionResults.                      *)
(***************************************************************************)
EXTENDS Integers, Sequences, FiniteSets

\* ------------------------------------------------------------------ bounds
\* Largest item list handed to the component.
MaxItems == 3
\* Largest repetition count selectable on the pre-game screen.
MaxReps == 5
\* Largest items.length * repetitions of a configuration.
MaxTotal == 5
\* Largest starting life count of a difficulty; with 4 lives a session of
\* one question reaches the re-queue cap of line 510 with lives to spare.
MaxLives == 4
\* Largest number of endGame continuations awaiting saveSession at once.
MaxPending == 2
\* The same three bounds for the inputs of generateQuestionQueue when it is
\* checked on its own (SpecQueue).
QueueMaxItems == 3
QueueMaxReps == 2
QueueMaxTotal == 6
\* The item count and the largest repetition count of the sessions long
\* enough for a life to regenerate before the last question (SpecRegen).
RegenItems == 1
RegenMaxReps == 6
\* The largest item list and repetition count for which regenThreshold is
\* computed on its own (SpecThreshold): up to 600 questions.
ThresholdMaxItems == 100
ThresholdMaxReps == 6
\* Largest items.length * repetitions of the sessions in which two answers
\* are submitted in one batch (SpecBatched).
BatchedMaxTotal == 3
\* Largest items.length * repetitions and starting life count of the
\* sessions started under every mode configuration (SpecModes).
ModesMaxTotal == 2
ModesMaxLives == 2
\* The largest counter value handed to endGame when it is called on its own
\* (SpecEndGame).
EndGameMaxCount == 10

\* ----------------------------------------------------------- configuration
\* DIFFICULTY_CONFIG is imported from ./types (line 18); the component reads
\* of the entry of the selected difficulty its lives (lines 264-268) and its
\* regenerates flag (line 583).  A difficulty is modelled by the entry the
\* table holds for it, so that every content of the table is covered.
Difficulties == [lives : 1..MaxLives, regenerates : BOOLEAN]

DIFFICULTY_CONFIG == [d \in Difficulties |-> d]

Max2(a, b) == IF a >= b THEN a ELSE b
Min2(a, b) == IF a <= b THEN a ELSE b
MinOf(S) == CHOOSE x \in S : \A y \in S : x <= y

\* Math.ceil(totalQuestions * 0.1) for a natural number.
CeilTenth(n) == (n + 9) \div 10

\* Math.max(5, Math.min(20, Math.ceil(totalQuestions * 0.1)))
\* Variant: the tenth is rounded down.
calculateRegenThresholdFloor(totalQuestions) == Max2(5, Min2(20, totalQuestions \div 10))

calculateRegenThreshold(totalQuestions) ==
  Max2(5, Min2(20, CeilTenth(totalQuestions)))

\* An item is modelled by the string getQuestionItemId extracts from it;
\* the items of a list are distinct.
getQuestionItemId(item) == item

\* ------------------------------------------------------------------ queue
\* queue is a sequence (positions 1..Len); the code's 0-based index k is
\* position k + 1.  A search that finds nothing returns 0 (the code's -1).
\* Variant: the entry at b is copied to a and the entry at a is lost.
SwapAtOverwriting(queue, a, b) == [queue EXCEPT ![a] = queue[b]]

SwapAt(queue, a, b) == [queue EXCEPT ![a] = queue[b], ![b] = queue[a]]

\* Variant: the search starts one position late.
FirstDifferentLate(queue, from, currentId) ==
  LET S == {j \in (from + 1)..Len(queue) :
              getQuestionItemId(queue[j].item) # currentId}
  IN IF S = {} THEN 0 ELSE MinOf(S)

\* The first position >= from whose item differs from currentId, else 0.
FirstDifferent(queue, from, currentId) ==
  LET S == {j \in from..Len(queue) :
              getQuestionItemId(queue[j].item) # currentId}
  IN IF S = {} THEN 0 ELSE MinOf(S)

\* One iteration of the for loop of stabilizeQueueNoImmediateRepeats at
\* position i (code index i - 1).
StabilizeStep(queue, i) ==
  LET currentId == getQuestionItemId(queue[i].item)
      nextId == getQuestionItemId(queue[i + 1].item)
      swapIndex == FirstDifferent(queue, i + 2, currentId)
  IN IF currentId # nextId THEN queue
     ELSE IF swapIndex # 0 THEN SwapAt(queue, i + 1, swapIndex)
     ELSE queue

RECURSIVE StabilizeFrom(_, _)
StabilizeFrom(queue, i) ==
  IF i >= Len(queue) THEN queue
  ELSE StabilizeFrom(StabilizeStep(queue, i), i + 1)

stabilizeQueueNoImmediateRepeats(queue) == StabilizeFrom(queue, 1)

\* items.forEach(item => for rep = 1..repetitions: queue.push(...)):
\* entry k (0-based) holds item (k div repetitions) + 1.
CrossProduct(n, repetitions) ==
  [k \in 1..(n * repetitions) |->
     [item |-> ((k - 1) \div repetitions) + 1, index |-> 0]]

\* The draws of one Fisher-Yates shuffle of len entries: js[i] is
\* random.integer(0, i) for the code index i = len - 1 down to 1.
ShuffleDraws(len) ==
  {js \in [1..(len - 1) -> 0..(len - 1)] : \A i \in 1..(len - 1) : js[i] <= i}

RECURSIVE FisherYates(_, _, _)
FisherYates(queue, js, i) ==
  IF i <= 0 THEN queue
  ELSE FisherYates(SwapAt(queue, i + 1, js[i] + 1), js, i - 1)

\* queue.forEach((q, i) => q.index = i)
SetIndices(queue) ==
  [k \in 1..Len(queue) |-> [queue[k] EXCEPT !.index = k - 1]]

\* Lines 85-116 for the draws js of the shuffle.
generateQuestionQueue(n, repetitions, js) ==
  SetIndices(stabilizeQueueNoImmediateRepeats(
    FisherYates(CrossProduct(n, repetitions), js, n * repetitions - 1)))

\* The orders the shuffle of lines 103-106 can leave the entries of
\* CrossProduct(n, repetitions) in: with every draw js[i] in 0..i possible,
\* every order of the entries.  remaining[item] counts the entries of an
\* item not yet placed.
RECURSIVE Orders(_)
Orders(remaining) ==
  LET left == {item \in DOMAIN remaining : remaining[item] > 0}
  IN IF left = {} THEN {<<>>}
     ELSE UNION {{<<[item |-> item, index |-> 0]>> \o rest :
                    rest \in Orders([remaining EXCEPT ![item] = @ - 1])} :
                  item \in left}

ShuffleOutcomes(n, repetitions) == Orders([item \in 1..n |-> repetitions])

\* Every queue generateQuestionQueue(items, repetitions) can return.
GeneratedQueues(n, repetitions) ==
  {SetIndices(stabilizeQueueNoImmediateRepeats(shuffled)) :
     shuffled \in ShuffleOutcomes(n, repetitions)}

\* The configurations within the bounds: the item list is a prop, the
\* repetition count comes from the persisted settings store.
Configs ==
  {c \in [items : 0..MaxItems, repetitions : 1..MaxReps] :
     c.items * c.repetitions <= MaxTotal}

\* ------------------------------------------------------------------ state
VARIABLES
  items,                 \* config.items.length (the items are 1..items)
  isGauntletRoute,       \* pathname includes '/gauntlet'
  mounted,               \* the component is mounted (router.push leaves it)
  difficulty,
  repetitions,
  gameMode,              \* "Pick" or "Type"
  generateOptions,       \* config.generateOptions is given
  getCorrectOption,      \* config.getCorrectOption is given
  checkAnswer,           \* config.checkAnswer is given
  phase,
  questionQueue,
  currentIndex,
  lives,
  maxLives,
  correctSinceLastRegen,
  regenThreshold,
  correctAnswers,
  wrongAnswers,
  currentStreak,
  bestStreak,
  livesRegenerated,
  characterStats,
  sessionStats,          \* "null", or "stats" once setSessionStats ran
  hasAutoStarted,
  pendingSaves,          \* endGame calls suspended at `await saveSession`
  submitCalls,           \* history: submitAnswer calls since handleStart
  userAnswer,            \* the text of the Type input
  shuffledOptions,       \* the options of the Pick game
  startTime,             \* Date.now() at handleStart
  lastAnswerTime,        \* lastAnswerTime.current
  answerTimes,           \* the recorded durations
  longestRun,            \* history: the longest run of correct answers
  currentRun,            \* history: correct answers since the last wrong one
  sessionResults,        \* history: the stats endGame built since handleStart
  cancelledEarly,        \* history: handleCancel ran before a result was built
  shuffleDraws,          \* SpecQueue only: the draws of the shuffle
  clock,                 \* Date.now()
  \* ---- the theme module (part_003) and the stores it reads and writes
  customThemes,          \* useCustomThemeStore: the templates of themes
  themeMapObjects,       \* the Map objects; 1 is the Map the subscriber holds
  themeMap,              \* _themeMap: 0 for null, or the object it refers to
  customThemesLoaded,    \* _customThemesLoaded
  appliedTheme,          \* the theme whose colours and id the DOM carries
  isGlassMode,           \* usePreferencesStore: the glass-mode preference
  returned,              \* what the last call of getTheme returned
  \* ---- ActiveGame (ReturnFromGame.tsx), the child the game is played in
  activeGameMounted,     \* an ActiveGame instance exists
  placedTiles,
  bottomBarState,        \* "check", "correct" or "wrong"
  isChecking,
  checkedResult,         \* <<>> for null, or <<[selectedOption, isCorrect]>>
  seenKey,               \* the questionKey the reset effect last ran for
  checkedAfter,          \* history: submitCalls when the check was recorded
  \* ---- the vocabulary input game (Input.tsx) and the adaptive selector
  selectedWordObjs,      \* selectedWordObjs.length (the words are 1..n)
  score,                 \* useStatsStore score
  correctChar,           \* the word asked for, 0 while no game is mounted
  quizType,              \* "meaning" or "reading"
  characterWeights,      \* the selector's weight entries, word -> weight
  vocabPc,               \* "idle", or the handler whose generateNewCharacter
                         \* is inside selectWeightedCharacter
  redraws                \* draws the running/last selection has rejected

themeVars ==
  <<customThemes, themeMapObjects, themeMap, customThemesLoaded, appliedTheme,
    isGlassMode, returned>>

activeGameVars ==
  <<activeGameMounted, placedTiles, bottomBarState, isChecking, checkedResult,
    seenKey, checkedAfter>>

vocabVars ==
  <<selectedWordObjs, score, correctChar, quizType, characterWeights,
    vocabPc, redraws>>

vars ==
  <<vocabVars, themeVars, activeGameVars, clock, items, isGauntletRoute, mounted,
    difficulty, repetitions, phase, questionQueue, currentIndex, lives, maxLives, correctSinceLastRegen,
    regenThreshold, correctAnswers, wrongAnswers, currentStreak, bestStreak,
    livesRegenerated, characterStats, sessionStats, hasAutoStarted,
    pendingSaves, submitCalls, userAnswer,
    shuffledOptions, startTime, lastAnswerTime,
    answerTimes, longestRun, currentRun,
    sessionResults, shuffleDraws, gameMode,
    generateOptions, getCorrectOption, checkAnswer, cancelledEarly>>

\* What no handler of the Gauntlet component writes.
configVars ==
  <<vocabVars, themeVars, activeGameVars, clock, items, isGauntletRoute, difficulty, repetitions, shuffleDraws, gameMode,
    generateOptions, getCorrectOption, checkAnswer>>

sessionVars ==
  <<questionQueue, currentIndex, lives, maxLives, correctSinceLastRegen,
    regenThreshold, correctAnswers, wrongAnswers, currentStreak, bestStreak,
    livesRegenerated, characterStats>>

\* const totalQuestions = items.length * repetitions
totalQuestions == items * repetitions

\* const currentQuestion = questionQueue[currentIndex] || null
hasCurrentQuestion == currentIndex + 1 <= Len(questionQueue)
currentQuestion == questionQueue[currentIndex + 1]

\* Record<string, {correct, wrong}>: an absent key reads as 0 / 0
\* (prev[charId]?.correct || 0), so {} is the all-zero tally.
EmptyCharacterStats == [id \in 1..items |-> [correct |-> 0, wrong |-> 0]]

\* useState<string[]>([]) of line 220.  The options generateOptions returns
\* for an item are known by the item they were generated for.
NoOptions == [generatedFor |-> 0]

\* Lines 250-257: the value of shuffledOptions after the call.
generateShuffledOptions(questionItem) ==
  IF ~generateOptions \/ gameMode # "Pick"
    THEN shuffledOptions
    ELSE [generatedFor |-> questionItem]

\* undefined, and the DOM before a theme is applied.
Undefined == [id |-> "", mainColor |-> 0]

\* The theme module right after it is loaded (part_003 lines 537, 570), with
\* no custom theme in the store.
ThemeModuleLoaded ==
  /\ customThemes = {}
  /\ themeMapObjects = [o \in 1..2 |-> {}]
  /\ themeMap = 0
  /\ customThemesLoaded = FALSE
  /\ appliedTheme = Undefined
  /\ isGlassMode = FALSE
  /\ returned = Undefined

\* No ActiveGame is rendered; an instance starts from the useState initial
\* values of ReturnFromGame.tsx lines 441-449.
ActiveGameUnmounted ==
  /\ activeGameMounted = FALSE
  /\ placedTiles = <<>>
  /\ bottomBarState = "check"
  /\ isChecking = FALSE
  /\ checkedResult = <<>>
  /\ seenKey = <<>>
  /\ checkedAfter = 0

\* The state of a fresh mount (the useState initial values).  The settings a
\* user picks on the pre-game screen before a start are the draws of
\* difficulty and repetitions here: handleStart reads no other state.
FreshMount ==
  /\ clock = 1
  /\ ThemeModuleLoaded
  /\ ActiveGameUnmounted
  /\ mounted = TRUE
  /\ phase = "pregame"
  /\ questionQueue = <<>>
  /\ currentIndex = 0
  /\ lives = 3
  /\ maxLives = 3
  /\ correctSinceLastRegen = 0
  /\ regenThreshold = 10
  /\ correctAnswers = 0
  /\ wrongAnswers = 0
  /\ currentStreak = 0
  /\ bestStreak = 0
  /\ livesRegenerated = 0
  /\ characterStats = EmptyCharacterStats
  /\ sessionStats = "null"
  /\ hasAutoStarted = FALSE
  /\ pendingSaves = 0
  /\ submitCalls = 0
  /\ userAnswer = <<>>
  /\ shuffledOptions = NoOptions
  /\ startTime = 0
  /\ lastAnswerTime = 0
  /\ answerTimes = <<>>
  /\ longestRun = 0
  /\ currentRun = 0
  /\ sessionResults = <<>>
  /\ cancelledEarly = FALSE

\* No vocabulary input game is mounted.
VocabInputGameUnmounted ==
  /\ selectedWordObjs = 0
  /\ score = 0
  /\ correctChar = 0
  /\ quizType = "meaning"
  /\ characterWeights = <<>>
  /\ vocabPc = "idle"
  /\ redraws = 0

\* A configuration that gives every collaborator, in Pick mode.
AllCollaborators ==
  /\ gameMode = "Pick"
  /\ generateOptions = TRUE
  /\ getCorrectOption = TRUE
  /\ checkAnswer = TRUE

Init ==
  /\ \E c \in Configs : items = c.items /\ repetitions = c.repetitions
  /\ isGauntletRoute \in BOOLEAN
  /\ difficulty \in Difficulties
  /\ shuffleDraws = <<>>
  /\ AllCollaborators
  /\ FreshMount
  /\ VocabInputGameUnmounted

\* ------------------------------------------------------------- rendering
\* What the component renders (lines 696-764) decides which handlers the
\* user can reach.
rendersEmptyState == items = 0
rendersPreGame == mounted /\ ~rendersEmptyState /\ phase = "pregame"
rendersResults ==
  mounted /\ ~rendersEmptyState /\ phase = "results" /\ sessionStats # "null"
\* The safety check of lines 733-739 renders EmptyState in place of the game.
modeUnsupported ==
  \/ gameMode = "Pick" /\ ~getCorrectOption
  \/ gameMode = "Type" /\ ~checkAnswer
rendersActiveGame ==
  /\ mounted /\ ~rendersEmptyState /\ ~rendersPreGame /\ ~rendersResults
  /\ ~modeUnsupported

\* The auto-start effect (lines 686-694) runs after the render that enables
\* it and before the user can act on that render.
\* Variant: the effect without the test of items.length (line 690).
autoStartDueAnyItems ==
  mounted /\ isGauntletRoute /\ ~hasAutoStarted /\ phase = "pregame"

autoStartDue ==
  mounted /\ isGauntletRoute /\ ~hasAutoStarted /\ phase = "pregame" /\ items # 0

\* ------------------------------------------------------------ handleStart
\* Variant: a start that keeps the best streak of the session before.
handleStartKeepsBestStreak ==
  \E queue \in GeneratedQueues(items, repetitions) :
    /\ questionQueue' = queue
    /\ currentIndex' = 0
    /\ lives' = DIFFICULTY_CONFIG[difficulty].lives
    /\ maxLives' = DIFFICULTY_CONFIG[difficulty].lives
    /\ correctSinceLastRegen' = 0
    /\ regenThreshold' = calculateRegenThreshold(Len(queue))
    /\ correctAnswers' = 0
    /\ wrongAnswers' = 0
    /\ currentStreak' = 0
    /\ UNCHANGED bestStreak
    /\ livesRegenerated' = 0
    /\ characterStats' = EmptyCharacterStats
    /\ phase' = "playing"
    /\ submitCalls' = 0
    /\ userAnswer' = <<>>
    /\ shuffledOptions' = IF Len(queue) > 0
                            THEN generateShuffledOptions(queue[1].item)
                            ELSE shuffledOptions
    /\ startTime' = clock
    /\ lastAnswerTime' = clock
    /\ answerTimes' = <<>>
    /\ longestRun' = 0
    /\ currentRun' = 0
    /\ sessionResults' = <<>>
    /\ cancelledEarly' = FALSE
    /\ UNCHANGED <<configVars, mounted, sessionStats, pendingSaves>>

\* Lines 260-298.  queue is what generateQuestionQueue(items, repetitions)
\* returned for the draws of this call.
handleStart ==
  \E queue \in GeneratedQueues(items, repetitions) :
    /\ questionQueue' = queue
    /\ currentIndex' = 0
    /\ lives' = DIFFICULTY_CONFIG[difficulty].lives
    /\ maxLives' = DIFFICULTY_CONFIG[difficulty].lives
    /\ correctSinceLastRegen' = 0
    /\ regenThreshold' = calculateRegenThreshold(Len(queue))
    /\ correctAnswers' = 0
    /\ wrongAnswers' = 0
    /\ currentStreak' = 0
    /\ bestStreak' = 0
    /\ livesRegenerated' = 0
    /\ characterStats' = EmptyCharacterStats
    /\ phase' = "playing"
    /\ submitCalls' = 0
    /\ userAnswer' = <<>>
    /\ shuffledOptions' = IF Len(queue) > 0
                            THEN generateShuffledOptions(queue[1].item)
                            ELSE shuffledOptions
    /\ startTime' = clock
    /\ lastAnswerTime' = clock
    /\ answerTimes' = <<>>
    /\ longestRun' = 0
    /\ currentRun' = 0
    /\ sessionResults' = <<>>
    /\ cancelledEarly' = FALSE
    /\ UNCHANGED <<configVars, mounted, sessionStats, pendingSaves>>

\* PreGameScreen onStart={handleStart} (line 715).
StartClicked ==
  /\ rendersPreGame
  /\ ~autoStartDue
  /\ handleStart
  /\ UNCHANGED hasAutoStarted

\* ResultsScreen onRestart={handleStart} (line 727).
RestartClicked ==
  /\ rendersResults
  /\ handleStart
  /\ UNCHANGED hasAutoStarted

\* The auto-start effect (lines 686-694).
AutoStart ==
  /\ autoStartDue
  /\ hasAutoStarted' = TRUE
  /\ handleStart

\* ResultsScreen onChangeSettings={() => setPhase('pregame')} (line 728).
ChangeSettings ==
  /\ rendersResults
  /\ phase' = "pregame"
  /\ UNCHANGED <<configVars, mounted, sessionVars, sessionStats,
                 hasAutoStarted, pendingSaves, submitCalls, userAnswer,
                 shuffledOptions,
                 startTime,
                 lastAnswerTime,
                 answerTimes,
                 longestRun,
                 currentRun,
                 sessionResults,
                 cancelledEarly>>

\* Lines 663-670.  router.push leaves the gauntlet route: the component
\* unmounts and its state is discarded (the variables return to their
\* initial values); suspended endGame calls stay suspended.
handleCancel ==
  /\ rendersActiveGame
  /\ cancelledEarly' = (sessionResults = <<>>)
  /\ IF isGauntletRoute
       THEN /\ mounted' = FALSE
            /\ phase' = "pregame"
            /\ questionQueue' = <<>>
            /\ currentIndex' = 0
            /\ lives' = 3
            /\ maxLives' = 3
            /\ correctSinceLastRegen' = 0
            /\ regenThreshold' = 10
            /\ correctAnswers' = 0
            /\ wrongAnswers' = 0
            /\ currentStreak' = 0
            /\ bestStreak' = 0
            /\ livesRegenerated' = 0
            /\ characterStats' = EmptyCharacterStats
            /\ sessionStats' = "null"
            /\ hasAutoStarted' = FALSE
            /\ submitCalls' = 0
            /\ userAnswer' = <<>>
            /\ shuffledOptions' = NoOptions
            /\ startTime' = 0
            /\ lastAnswerTime' = 0
            /\ answerTimes' = <<>>
            /\ longestRun' = 0
            /\ currentRun' = 0
            /\ sessionResults' = <<>>
       ELSE /\ phase' = "pregame"
            /\ UNCHANGED <<mounted, sessionVars, sessionStats, hasAutoStarted,
                           submitCalls, userAnswer, shuffledOptions,
                           startTime, lastAnswerTime,
                           answerTimes, longestRun,
                           currentRun, sessionResults>>
  /\ UNCHANGED <<configVars, pendingSaves>>

\* ------------------------------------------------ ensureNextQuestionIsDifferent
\* Lines 306-338; answeredIndex is the code's 0-based index.
\* Variant: the queue is handed on without the look-ahead swap.
ensureNextQuestionIsDifferentSkipped(queue, answeredIndex) == queue

ensureNextQuestionIsDifferent(queue, answeredIndex) ==
  LET nextIndex == answeredIndex + 1
      currentId == getQuestionItemId(queue[answeredIndex + 1].item)
      nextId == getQuestionItemId(queue[nextIndex + 1].item)
      swapIndex == FirstDifferent(queue, nextIndex + 2, currentId)
  IN IF nextIndex >= Len(queue) THEN queue
     ELSE IF currentId # nextId THEN queue
     ELSE IF swapIndex = 0 THEN queue
     ELSE SwapAt(queue, nextIndex + 1, swapIndex)

\* ---------------------------------------------------------------- endGame
\* Variant: the share of the session's questions answered correctly.
AccuracyOfTotal(actualCorrectAnswers, actualWrongAnswers) ==
  IF totalQuestions > 0
    THEN <<actualCorrectAnswers, totalQuestions>>
    ELSE <<0, 1>>

\* accuracy (lines 372-375) as the fraction <<numerator, denominator>>.
Accuracy(actualCorrectAnswers, actualWrongAnswers) ==
  IF actualCorrectAnswers + actualWrongAnswers > 0
    THEN <<actualCorrectAnswers, actualCorrectAnswers + actualWrongAnswers>>
    ELSE <<0, 1>>

\* Variant: livesLost without the lives that came back.
BuildStatsNetLoss(completed, actualLives, actualCorrectAnswers, actualWrongAnswers, actualQuestionsCompleted, actualBestStreak, actualCurrentStreak) ==
  [ difficulty |-> difficulty,
    totalQuestions |-> totalQuestions,
    correctAnswers |-> actualCorrectAnswers,
    wrongAnswers |-> actualWrongAnswers,
    accuracy |-> Accuracy(actualCorrectAnswers, actualWrongAnswers),
    bestStreak |-> actualBestStreak,
    currentStreak |-> actualCurrentStreak,
    startingLives |-> maxLives,
    livesRemaining |-> actualLives,
    livesLost |-> maxLives - actualLives,
    livesRegenerated |-> livesRegenerated,
    completed |-> completed,
    questionsCompleted |-> actualQuestionsCompleted,
    characterStats |-> characterStats,
    totalCharacters |-> items,
    repetitionsPerChar |-> repetitions ]

\* The stats object of lines 364-398: the parameters are the values
\* submitAnswer computed, every other field is read from the render the
\* callback closed over (the unprimed state).
BuildStats(completed, actualLives, actualCorrectAnswers, actualWrongAnswers, actualQuestionsCompleted, actualBestStreak, actualCurrentStreak) ==
  [ difficulty |-> difficulty,
    totalQuestions |-> totalQuestions,
    correctAnswers |-> actualCorrectAnswers,
    wrongAnswers |-> actualWrongAnswers,
    accuracy |-> Accuracy(actualCorrectAnswers, actualWrongAnswers),
    bestStreak |-> actualBestStreak,
    currentStreak |-> actualCurrentStreak,
    startingLives |-> maxLives,
    livesRemaining |-> actualLives,
    livesLost |-> maxLives - actualLives + livesRegenerated,
    livesRegenerated |-> livesRegenerated,
    completed |-> completed,
    questionsCompleted |-> actualQuestionsCompleted,
    characterStats |-> characterStats,
    totalCharacters |-> items,
    repetitionsPerChar |-> repetitions ]

\* Lines 343-403, up to the await: setSessionStats(stats) and the call of
\* saveSession(stats); the rest of endGame runs in saveSessionResolved.
endGame(completed, actualLives, actualCorrectAnswers, actualWrongAnswers, actualQuestionsCompleted, actualBestStreak, actualCurrentStreak) ==
  LET stats == BuildStats(completed, actualLives, actualCorrectAnswers,
                          actualWrongAnswers, actualQuestionsCompleted,
                          actualBestStreak, actualCurrentStreak)
  IN /\ sessionStats' = "stats"
     /\ pendingSaves' = pendingSaves + 1
     /\ sessionResults' = Append(sessionResults, stats)

\* Lines 403-418: saveSession(stats) has resolved for one suspended endGame;
\* recordGauntletRun is called and the phase set.  A state setter of an
\* unmounted component does nothing.
saveSessionResolved ==
  /\ pendingSaves > 0
  /\ pendingSaves' = pendingSaves - 1
  /\ phase' = IF mounted THEN "results" ELSE phase
  /\ UNCHANGED <<configVars, mounted, sessionVars, sessionStats,
                 hasAutoStarted, submitCalls, userAnswer,
                 shuffledOptions, startTime,
                 lastAnswerTime, answerTimes,
                 longestRun, currentRun,
                 sessionResults, cancelledEarly>>

\* -------------------------------------------------- advanceToNextQuestion
\* newQueue.splice(insertPos, 0, failedQuestion), insertPos 0-based.
SpliceIn(queue, insertPos, entry) ==
  LET pos == Min2(insertPos, Len(queue))
  IN SubSeq(queue, 1, pos) \o <<entry>> \o SubSeq(queue, pos + 1, Len(queue))

\* Variant: the offset is drawn up to 5 whatever remains of the queue.
InsertOffsetsUnbounded(remainingLength) ==
  LET minOffset == IF remainingLength > 1 THEN 2 ELSE 1
      maxOffset == Max2(minOffset, 5)
  IN IF remainingLength > 0 THEN minOffset..maxOffset ELSE {1}

\* Lines 518-522: the values random.integer(minOffset, maxOffset) can
\* return, or 1 when nothing remains behind the current entry.
InsertOffsets(remainingLength) ==
  LET minOffset == IF remainingLength > 1 THEN 2 ELSE 1
      maxOffset == Max2(minOffset, Min2(remainingLength, 5))
  IN IF remainingLength > 0 THEN minOffset..maxOffset ELSE {1}

\* Variant: the failed entry is re-queued whatever the length of the queue.
RequeueUncapped(prevQueue, insertOffset) ==
  LET failedQuestion == prevQueue[currentIndex + 1]
  IN SpliceIn(prevQueue, currentIndex + insertOffset, failedQuestion)

\* Lines 510-525: the queue after the re-queue of the failed entry.
Requeue(prevQueue, insertOffset) ==
  LET maxQueueSize == totalQuestions * 3
      failedQuestion == prevQueue[currentIndex + 1]
  IN IF Len(prevQueue) < maxQueueSize
       THEN SpliceIn(prevQueue, currentIndex + insertOffset, failedQuestion)
       ELSE prevQueue

\* Lines 449-551; outOfLives is the test of line 463, allAnswered the test
\* of line 478.
\* Variant: the session ends only once lives is below zero.
outOfLivesBelowZero(newLives) == newLives < 0

outOfLives(newLives) == newLives <= 0

\* Variant: the session ends only once the target is exceeded.
allAnsweredExceeded(newCorrectAnswers) == newCorrectAnswers > totalQuestions

allAnswered(newCorrectAnswers) == newCorrectAnswers >= totalQuestions

\* Variant: the index stays on the answered entry.
nextIndexKept == currentIndex

\* nextIndex of lines 491 and 534.
nextIndex == currentIndex + 1

\* Lines 499-502 and 535-538.
optionsForNext(stabilizedQueue) ==
  IF nextIndex + 1 <= Len(stabilizedQueue)
    THEN generateShuffledOptions(stabilizedQueue[nextIndex + 1].item)
    ELSE shuffledOptions

advanceToNextQuestion(newLives, wasCorrect, newCorrectAnswers, newWrongAnswers, questionsCompleted, newBestStreak, newCurrentStreak) ==
  IF outOfLives(newLives)
    THEN /\ endGame(FALSE, newLives, newCorrectAnswers, newWrongAnswers,
                    questionsCompleted, newBestStreak, newCurrentStreak)
         /\ UNCHANGED <<questionQueue, currentIndex, shuffledOptions>>
  ELSE IF wasCorrect /\ allAnswered(newCorrectAnswers)
    THEN /\ endGame(TRUE, newLives, newCorrectAnswers, newWrongAnswers,
                    questionsCompleted, newBestStreak, newCurrentStreak)
         /\ UNCHANGED <<questionQueue, currentIndex, shuffledOptions>>
  ELSE IF wasCorrect
    THEN /\ questionQueue' =
              ensureNextQuestionIsDifferent(questionQueue, currentIndex)
         /\ shuffledOptions' = optionsForNext(questionQueue')
         /\ currentIndex' = nextIndex
         /\ UNCHANGED <<sessionStats, pendingSaves, sessionResults>>
  ELSE \E insertOffset \in
            InsertOffsets(Len(questionQueue) - (currentIndex + 1)) :
         /\ questionQueue' =
              ensureNextQuestionIsDifferent(
                Requeue(questionQueue, insertOffset), currentIndex)
         /\ shuffledOptions' = optionsForNext(questionQueue')
         /\ currentIndex' = nextIndex
         /\ UNCHANGED <<sessionStats, pendingSaves, sessionResults>>

\* ----------------------------------------------------------- submitAnswer
\* setCharacterStats of lines 572-578 and 616-622.
\* Variant: a correct answer booked on the wrong tally.
TallyCorrectAsWrong(prev, charId) ==
  [prev EXCEPT ![charId] = [correct |-> prev[charId].correct,
                            wrong |-> prev[charId].wrong + 1]]

TallyCorrect(prev, charId) ==
  [prev EXCEPT ![charId] = [correct |-> prev[charId].correct + 1,
                            wrong |-> prev[charId].wrong]]

\* Variant: a wrong answer booked on the correct tally.
TallyWrongAsCorrect(prev, charId) ==
  [prev EXCEPT ![charId] = [correct |-> prev[charId].correct + 1,
                            wrong |-> prev[charId].wrong]]

TallyWrong(prev, charId) ==
  [prev EXCEPT ![charId] = [correct |-> prev[charId].correct,
                            wrong |-> prev[charId].wrong + 1]]

\* Variant: the life comes back one correct answer late.
regenDueLate(newCorrectSinceRegen) == newCorrectSinceRegen > regenThreshold

\* The test of line 586.
regenDue(newCorrectSinceRegen) == newCorrectSinceRegen >= regenThreshold

\* Variant: the best streak is compared with the streak before the answer.
computeBestStreakStale(newCurrentStreak) == Max2(bestStreak, currentStreak)

\* newBestStreak of line 565.
computeBestStreak(newCurrentStreak) == Max2(bestStreak, newCurrentStreak)

\* Variant: lives come back under every difficulty.
canRegenAlways == TRUE

\* Line 583.
canRegen == DIFFICULTY_CONFIG[difficulty].regenerates

\* Lines 559-607.
submitAnswerCorrect ==
  LET newCurrentStreak == currentStreak + 1
      newBestStreak == computeBestStreak(newCurrentStreak)
      charId == getQuestionItemId(currentQuestion.item)
      newCorrectAnswers == correctAnswers + 1
      questionsCompleted == currentIndex + 1
      newCorrectSinceRegen == correctSinceLastRegen + 1
  IN /\ correctAnswers' = correctAnswers + 1
     /\ currentStreak' = newCurrentStreak
     /\ bestStreak' = newBestStreak
     /\ characterStats' = TallyCorrect(characterStats, charId)
     /\ IF canRegen /\ lives < maxLives
          THEN IF regenDue(newCorrectSinceRegen)
                 THEN /\ lives' = Min2(lives + 1, maxLives)
                      /\ correctSinceLastRegen' = 0
                      /\ livesRegenerated' = livesRegenerated + 1
                 ELSE /\ correctSinceLastRegen' = newCorrectSinceRegen
                      /\ UNCHANGED <<lives, livesRegenerated>>
          ELSE UNCHANGED <<lives, correctSinceLastRegen, livesRegenerated>>
     /\ UNCHANGED wrongAnswers
     /\ advanceToNextQuestion(lives, TRUE, newCorrectAnswers, wrongAnswers,
                              questionsCompleted, newBestStreak,
                              newCurrentStreak)

\* Variant: a wrong answer that is not counted in wrongAnswers.
submitAnswerWrongUncounted ==
  LET charId == getQuestionItemId(currentQuestion.item)
      newLives == lives - 1
      questionsCompletedOnWrong == currentIndex + 1
  IN /\ currentStreak' = 0
     /\ correctSinceLastRegen' = 0
     /\ characterStats' = TallyWrong(characterStats, charId)
     /\ lives' = newLives
     /\ UNCHANGED <<correctAnswers, wrongAnswers, bestStreak, livesRegenerated>>
     /\ advanceToNextQuestion(newLives, FALSE, correctAnswers, wrongAnswers,
                              questionsCompletedOnWrong, bestStreak, 0)

\* Variant: a wrong answer that keeps the regeneration counter.
submitAnswerWrongKeepsCounter ==
  LET charId == getQuestionItemId(currentQuestion.item)
      newLives == lives - 1
      newWrongAnswers == wrongAnswers + 1
      questionsCompletedOnWrong == currentIndex + 1
  IN /\ wrongAnswers' = wrongAnswers + 1
     /\ currentStreak' = 0
     /\ characterStats' = TallyWrong(characterStats, charId)
     /\ lives' = newLives
     /\ UNCHANGED <<correctAnswers, bestStreak, livesRegenerated,
                    correctSinceLastRegen>>
     /\ advanceToNextQuestion(newLives, FALSE, correctAnswers, newWrongAnswers,
                              questionsCompletedOnWrong, bestStreak, 0)

\* Lines 609-640.
submitAnswerWrong ==
  LET charId == getQuestionItemId(currentQuestion.item)
      newLives == lives - 1
      newWrongAnswers == wrongAnswers + 1
      questionsCompletedOnWrong == currentIndex + 1
  IN /\ wrongAnswers' = wrongAnswers + 1
     /\ currentStreak' = 0
     /\ correctSinceLastRegen' = 0
     /\ characterStats' = TallyWrong(characterStats, charId)
     /\ lives' = newLives
     /\ UNCHANGED <<correctAnswers, bestStreak, livesRegenerated>>
     /\ advanceToNextQuestion(newLives, FALSE, correctAnswers, newWrongAnswers,
                              questionsCompletedOnWrong, bestStreak, 0)

\* Variant: a duration is recorded whatever its sign.
recordAnswerTimeUnchecked(prev) ==
  IF lastAnswerTime > 0
    THEN Append(prev, clock - lastAnswerTime)
    ELSE prev

\* Lines 436-447: the value setAnswerTimes leaves, for the answerTimes prev.
\* lastAnswerTime.current = now is written by the caller's conjunct.
recordAnswerTime(prev) ==
  IF lastAnswerTime > 0 /\ clock - lastAnswerTime > 0
    THEN Append(prev, clock - lastAnswerTime)
    ELSE prev

\* Lines 553-660, reached through ActiveGame's onSubmit (lines 673-678, 755).
submitAnswer(isCorrect) ==
  /\ rendersActiveGame
  /\ hasCurrentQuestion
  /\ pendingSaves < MaxPending
  /\ IF isCorrect THEN submitAnswerCorrect ELSE submitAnswerWrong
  /\ submitCalls' = submitCalls + 1
  /\ userAnswer' = <<>>
  /\ startTime' = startTime
  /\ lastAnswerTime' = clock
  /\ answerTimes' = recordAnswerTime(answerTimes)
  /\ longestRun' = Max2(longestRun, IF isCorrect THEN currentRun + 1 ELSE 0)
  /\ currentRun' = IF isCorrect THEN currentRun + 1 ELSE 0
  /\ UNCHANGED <<configVars, mounted, phase, maxLives, regenThreshold,
                 hasAutoStarted, cancelledEarly>>

\* ------------------------------------------------------------------- spec
Next ==
  \/ StartClicked
  \/ RestartClicked
  \/ AutoStart
  \/ ChangeSettings
  \/ handleCancel
  \/ \E isCorrect \in BOOLEAN : submitAnswer(isCorrect)
  \/ saveSessionResolved

Spec == Init /\ [][Next]_vars

\* ------------------------------------------- generateQuestionQueue alone
\* The inputs of one call: an item list, a repetition count and the draws
\* of the shuffle.
InitQueue ==
  /\ items \in 1..QueueMaxItems
  /\ repetitions \in 1..QueueMaxReps
  /\ items * repetitions <= QueueMaxTotal
  /\ shuffleDraws \in ShuffleDraws(items * repetitions)
  /\ isGauntletRoute = FALSE
  /\ difficulty = [lives |-> MaxLives, regenerates |-> TRUE]
  /\ AllCollaborators
  /\ FreshMount
  /\ VocabInputGameUnmounted

GenerateQueue ==
  /\ questionQueue = <<>>
  /\ questionQueue' = generateQuestionQueue(items, repetitions, shuffleDraws)
  /\ UNCHANGED <<configVars, mounted, phase, currentIndex, lives, maxLives,
                 correctSinceLastRegen, regenThreshold, correctAnswers,
                 wrongAnswers, currentStreak, bestStreak, livesRegenerated,
                 characterStats, sessionStats, hasAutoStarted, pendingSaves,
                 submitCalls, userAnswer, shuffledOptions, startTime,
                 lastAnswerTime, answerTimes, longestRun,
                 currentRun, sessionResults, cancelledEarly>>

NextQueue == GenerateQueue

SpecQueue == InitQueue /\ [][NextQueue]_vars

\* The queues handleStart draws from are the queues the shuffle yields.
GeneratedQueuesCoverDraws ==
  questionQueue # <<>> => questionQueue \in GeneratedQueues(items, repetitions)

\* ------------------------------------------- two calls in one batch
\* submitAnswer called twice before the component renders again: both calls
\* run the same callback, which closed over the same render, and React
\* applies the queued updates of each state in call order: an updater
\* function (prev => ...) to the value so far, a plain value by replacing
\* it.  In the operators below `cur` is the value so far and every other
\* name is the rendered state.
regenNow ==
  /\ DIFFICULTY_CONFIG[difficulty].regenerates
  /\ lives < maxLives
  /\ regenDue(correctSinceLastRegen + 1)

\* The newLives argument of advanceToNextQuestion (lines 597, 624).
newLivesOf(isCorrect) == IF isCorrect THEN lives ELSE lives - 1

\* The call ends the session (lines 463, 478).
endsSession(isCorrect) ==
  \/ outOfLives(newLivesOf(isCorrect))
  \/ isCorrect /\ allAnswered(correctAnswers + 1)

\* setLives (lines 587, 627).
livesAfter(cur, isCorrect) ==
  IF isCorrect
    THEN IF regenNow THEN Min2(cur + 1, maxLives) ELSE cur
    ELSE lives - 1

\* setCorrectSinceLastRegen (lines 588, 593, 613).
correctSinceLastRegenAfter(cur, isCorrect) ==
  IF ~isCorrect THEN 0
  ELSE IF DIFFICULTY_CONFIG[difficulty].regenerates /\ lives < maxLives
    THEN IF regenNow THEN 0 ELSE correctSinceLastRegen + 1
  ELSE cur

\* setLivesRegenerated (line 589).
livesRegeneratedAfter(cur, isCorrect) ==
  IF isCorrect /\ regenNow THEN cur + 1 ELSE cur

\* setCurrentStreak (lines 566, 612) and setBestStreak (line 567).
currentStreakAfter(cur, isCorrect) ==
  IF isCorrect THEN currentStreak + 1 ELSE 0

bestStreakAfter(cur, isCorrect) ==
  IF isCorrect THEN Max2(bestStreak, currentStreak + 1) ELSE cur

\* setCharacterStats (lines 572-578, 616-622).
characterStatsAfter(cur, isCorrect) ==
  LET charId == getQuestionItemId(currentQuestion.item)
  IN IF isCorrect THEN TallyCorrect(cur, charId) ELSE TallyWrong(cur, charId)

\* setQuestionQueue (lines 497-499, 531) and setCurrentIndex (lines 504, 540).
questionQueueAfter(cur, isCorrect, insertOffset) ==
  LET stabilized == ensureNextQuestionIsDifferent(questionQueue, currentIndex)
  IN IF endsSession(isCorrect) THEN cur
     ELSE IF isCorrect
       THEN IF stabilized # questionQueue THEN stabilized ELSE cur
     ELSE ensureNextQuestionIsDifferent(
            Requeue(questionQueue, insertOffset), currentIndex)

\* setShuffledOptions (lines 499-502, 535-538), a plain value.
shuffledOptionsAfter(cur, isCorrect, insertOffset) ==
  LET stabilizedQueue ==
        IF isCorrect
          THEN ensureNextQuestionIsDifferent(questionQueue, currentIndex)
          ELSE ensureNextQuestionIsDifferent(
                 Requeue(questionQueue, insertOffset), currentIndex)
  IN IF endsSession(isCorrect) \/ nextIndex + 1 > Len(stabilizedQueue)
          \/ ~generateOptions \/ gameMode # "Pick"
       THEN cur
       ELSE [generatedFor |-> stabilizedQueue[nextIndex + 1].item]

currentIndexAfter(cur, isCorrect) ==
  IF endsSession(isCorrect) THEN cur ELSE currentIndex + 1

\* The stats of the endGame call of a call that ends the session.
statsOfCall(isCorrect) ==
  IF isCorrect
    THEN BuildStats(~outOfLives(lives), lives, correctAnswers + 1,
                    wrongAnswers, currentIndex + 1,
                    Max2(bestStreak, currentStreak + 1), currentStreak + 1)
    ELSE BuildStats(FALSE, lives - 1, correctAnswers, wrongAnswers + 1,
                    currentIndex + 1, bestStreak, 0)

sessionResultsAfter(cur, isCorrect) ==
  IF endsSession(isCorrect) THEN Append(cur, statsOfCall(isCorrect)) ELSE cur

submitAnswerTwice(first, second) ==
  /\ rendersActiveGame
  /\ hasCurrentQuestion
  /\ pendingSaves + 2 <= MaxPending
  /\ \E offset1, offset2 \in
          InsertOffsets(Len(questionQueue) - (currentIndex + 1)) :
       /\ questionQueue' =
            questionQueueAfter(
              questionQueueAfter(questionQueue, first, offset1),
              second, offset2)
       /\ shuffledOptions' =
            shuffledOptionsAfter(
              shuffledOptionsAfter(shuffledOptions, first, offset1),
              second, offset2)
  /\ currentIndex' =
       currentIndexAfter(currentIndexAfter(currentIndex, first), second)
  /\ lives' = livesAfter(livesAfter(lives, first), second)
  /\ correctSinceLastRegen' =
       correctSinceLastRegenAfter(
         correctSinceLastRegenAfter(correctSinceLastRegen, first), second)
  /\ livesRegenerated' =
       livesRegeneratedAfter(livesRegeneratedAfter(livesRegenerated, first),
                             second)
  /\ correctAnswers' =
       correctAnswers + (IF first THEN 1 ELSE 0) + (IF second THEN 1 ELSE 0)
  /\ wrongAnswers' =
       wrongAnswers + (IF first THEN 0 ELSE 1) + (IF second THEN 0 ELSE 1)
  /\ currentStreak' =
       currentStreakAfter(currentStreakAfter(currentStreak, first), second)
  /\ bestStreak' = bestStreakAfter(bestStreakAfter(bestStreak, first), second)
  /\ characterStats' =
       characterStatsAfter(characterStatsAfter(characterStats, first), second)
  /\ sessionResults' =
       sessionResultsAfter(sessionResultsAfter(sessionResults, first), second)
  /\ pendingSaves' = pendingSaves + Len(sessionResults') - Len(sessionResults)
  /\ sessionStats' =
       IF endsSession(first) \/ endsSession(second) THEN "stats"
       ELSE sessionStats
  /\ submitCalls' = submitCalls + 2
  /\ userAnswer' = <<>>
  /\ startTime' = startTime
  /\ lastAnswerTime' = clock
  /\ answerTimes' = recordAnswerTime(answerTimes)
  /\ longestRun' = Max2(longestRun, IF first THEN currentRun + (IF second THEN 2 ELSE 1)
                       ELSE IF second THEN 1 ELSE 0)
  /\ currentRun' = IF second THEN (IF first THEN currentRun + 2 ELSE 1) ELSE 0
  /\ UNCHANGED <<configVars, mounted, phase, maxLives, regenThreshold,
                 hasAutoStarted, cancelledEarly>>

NextBatched ==
  \/ Next
  \/ \E first, second \in BOOLEAN : submitAnswerTwice(first, second)

InitBatched == Init /\ totalQuestions <= BatchedMaxTotal

SpecBatched == InitBatched /\ [][NextBatched]_vars

\* --------------------------------------------------- mode configurations
\* The component mounted with either game mode and any of the optional
\* collaborators of the config missing.
InitModes ==
  /\ \E c \in Configs : items = c.items /\ repetitions = c.repetitions
  /\ items >= 1
  /\ totalQuestions <= ModesMaxTotal
  /\ isGauntletRoute \in BOOLEAN
  /\ difficulty \in {d \in Difficulties : d.lives <= ModesMaxLives}
  /\ gameMode \in {"Pick", "Type"}
  /\ generateOptions \in BOOLEAN
  /\ getCorrectOption \in BOOLEAN
  /\ checkAnswer \in BOOLEAN
  /\ shuffleDraws = <<>>
  /\ FreshMount
  /\ VocabInputGameUnmounted

SpecModes == InitModes /\ [][Next]_vars

\* ------------------------------------------------------- long sessions
\* The component mounted with one item and up to RegenMaxReps repetitions,
\* on a difficulty that regenerates lives: regenThreshold is 5, so a life
\* can come back while questions remain.
InitRegen ==
  /\ items = RegenItems
  /\ repetitions \in (RegenMaxReps - 1)..RegenMaxReps
  /\ isGauntletRoute \in BOOLEAN
  /\ difficulty \in {d \in Difficulties : d.regenerates /\ d.lives >= 2}
  /\ shuffleDraws = <<>>
  /\ AllCollaborators
  /\ FreshMount
  /\ VocabInputGameUnmounted

SpecRegen == InitRegen /\ [][Next]_vars

\* ------------------------------------------------- regenThreshold alone
\* handleStart for sessions too long to enumerate their queues: of lines
\* 260-298 only the threshold (lines 266, 273) and the phase (line 297); the
\* queue of lines 92-100 has items.length * repetitions entries.
InitThreshold ==
  /\ items \in 1..ThresholdMaxItems
  /\ repetitions \in 1..ThresholdMaxReps
  /\ isGauntletRoute = FALSE
  /\ difficulty = [lives |-> MaxLives, regenerates |-> TRUE]
  /\ shuffleDraws = <<>>
  /\ AllCollaborators
  /\ FreshMount
  /\ VocabInputGameUnmounted

StartThreshold ==
  /\ phase = "pregame"
  /\ regenThreshold' = calculateRegenThreshold(items * repetitions)
  /\ phase' = "playing"
  /\ UNCHANGED <<configVars, mounted, questionQueue, currentIndex, lives,
                 maxLives, correctSinceLastRegen, correctAnswers,
                 wrongAnswers, currentStreak, bestStreak, livesRegenerated,
                 characterStats, sessionStats, hasAutoStarted, pendingSaves,
                 submitCalls, userAnswer, shuffledOptions, startTime,
                 lastAnswerTime, answerTimes, longestRun,
                 currentRun, sessionResults, cancelledEarly>>

NextThreshold == StartThreshold

SpecThreshold == InitThreshold /\ [][NextThreshold]_vars

\* ----------------------------------------------------------- endGame alone
\* endGame called once with any counter values (lines 343-403), on a fresh
\* mount.
InitEndGame ==
  /\ items = 1
  /\ repetitions \in 1..MaxReps
  /\ isGauntletRoute = FALSE
  /\ difficulty = [lives |-> MaxLives, regenerates |-> TRUE]
  /\ shuffleDraws = <<>>
  /\ AllCollaborators
  /\ FreshMount
  /\ VocabInputGameUnmounted

CallEndGame ==
  /\ sessionResults = <<>>
  /\ \E completed \in BOOLEAN, actualCorrectAnswers \in 0..EndGameMaxCount,
        actualWrongAnswers \in 0..EndGameMaxCount :
       endGame(completed, lives, actualCorrectAnswers, actualWrongAnswers,
               actualCorrectAnswers + actualWrongAnswers, 0, 0)
  /\ UNCHANGED <<configVars, mounted, phase, sessionVars, hasAutoStarted,
                 submitCalls, userAnswer, shuffledOptions,
                 startTime, lastAnswerTime, answerTimes,
                 longestRun, currentRun, cancelledEarly>>

NextEndGame == CallEndGame

SpecEndGame == InitEndGame /\ [][NextEndGame]_vars

\* A session long enough for every insert offset of the re-queue, with one
\* life to lose before the session ends.
RequeueMaxItems == 2
RequeueMinTotal == 7
RequeueMaxTotal == 8
RequeueLives == 2

InitRequeue ==
  /\ items \in 1..RequeueMaxItems
  /\ repetitions \in 1..RequeueMaxTotal
  /\ items * repetitions \in RequeueMinTotal..RequeueMaxTotal
  /\ isGauntletRoute \in BOOLEAN
  /\ difficulty = [lives |-> RequeueLives, regenerates |-> FALSE]
  /\ shuffleDraws = <<>>
  /\ AllCollaborators
  /\ FreshMount
  /\ VocabInputGameUnmounted

SpecRequeue == InitRequeue /\ [][Next]_vars

\* ------------------------------------------- adaptive selector (spec.md)
\* The selector (shared/lib/adaptiveSelection) keeps one weight per item.
\* Weights are in tenths: 10 is the weight 1.0.
VocabMaxWords == 2
VocabMaxScore == 3

\* "weight default 1.0 for unseen items"
DefaultWeight == 10
\* "down to a floor (e.g. 0.1 x default)"
WeightFloor == 1
\* "up to a ceiling (e.g. 5 x default)"
WeightCeiling == 50
\* "a sub-1 decay factor", "a factor > 1", as <<numerator, denominator>>
DecayFactor == <<1, 2>>
GrowthFactor == <<2, 1>>
\* "bounded retries"
MaxRedraws == 3

weightOf(weights, item) ==
  IF item \in DOMAIN weights THEN weights[item] ELSE DefaultWeight

\* markCharacterSeen(item): ensures a weight entry exists; idempotent.
markCharacterSeen(weights, item) ==
  [i \in DOMAIN weights \cup {item} |-> weightOf(weights, i)]

\* Variant: the decay stops at nothing.
decayedUnfloored(weight) == (weight * DecayFactor[1]) \div DecayFactor[2]

decayed(weight) ==
  Max2(WeightFloor, (weight * DecayFactor[1]) \div DecayFactor[2])

grown(weight) ==
  Min2(WeightCeiling, (weight * GrowthFactor[1]) \div GrowthFactor[2])

\* updateCharacterWeight(item, wasCorrect)
updateCharacterWeight(weights, item, wasCorrect) ==
  [i \in DOMAIN weights \cup {item} |->
     IF i # item THEN weights[i]
     ELSE IF wasCorrect THEN decayed(weightOf(weights, item))
     ELSE grown(weightOf(weights, item))]

\* The cumulative-weight distribution over candidates and the candidate a
\* draw r of [0, total) falls on.
RECURSIVE CumulativeWeight(_, _, _)
CumulativeWeight(weights, candidates, k) ==
  IF k = 0 THEN 0
  ELSE CumulativeWeight(weights, candidates, k - 1)
         + weightOf(weights, candidates[k])

TotalWeight(weights, candidates) ==
  CumulativeWeight(weights, candidates, Len(candidates))

drawWeighted(weights, candidates, r) ==
  candidates[CHOOSE k \in 1..Len(candidates) :
               /\ CumulativeWeight(weights, candidates, k) > r
               /\ CumulativeWeight(weights, candidates, k - 1) <= r]

\* Variant: a draw equal to exclude is always redrawn.
redrawDueUnbounded(candidates, exclude, drawn) ==
  /\ exclude # 0
  /\ Len(candidates) > 1
  /\ drawn = exclude

\* "if exclude is supplied and candidates.length > 1, a draw equal to
\* exclude is redrawn (bounded retries, falling back to accepting it)"
redrawDue(candidates, exclude, drawn) ==
  /\ exclude # 0
  /\ Len(candidates) > 1
  /\ drawn = exclude
  /\ redraws < MaxRedraws

\* --------------------------------------------- VocabInputGame (Input.tsx)
\* sourceArray of lines 62-64 and 203-205: one entry per selected word.
sourceArray == [i \in 1..selectedWordObjs |-> i]

\* Mount: the useState initializer of lines 60-69 draws the first word
\* without exclude and marks it seen.  The score is the store's.
InitVocab ==
  /\ selectedWordObjs \in 1..VocabMaxWords
  /\ score \in 0..VocabMaxScore
  /\ quizType = "meaning"
  /\ \E r \in 0..(TotalWeight(<<>>, sourceArray) - 1) :
       /\ correctChar = drawWeighted(<<>>, sourceArray, r)
       /\ characterWeights = markCharacterSeen(<<>>, correctChar)
  /\ vocabPc = "idle"
  /\ redraws = 0
  /\ items = 0
  /\ repetitions = 1
  /\ isGauntletRoute = FALSE
  /\ difficulty = [lives |-> 1, regenerates |-> FALSE]
  /\ shuffleDraws = <<>>
  /\ AllCollaborators
  /\ FreshMount

\* The state of the Gauntlet component that ActiveGame cannot write.
gauntletCore ==
  <<items, isGauntletRoute, mounted, difficulty, repetitions, phase,
    questionQueue, currentIndex, lives, maxLives, correctSinceLastRegen,
    regenThreshold, correctAnswers, wrongAnswers, currentStreak, bestStreak,
    livesRegenerated, characterStats, sessionStats, hasAutoStarted,
    pendingSaves, submitCalls, shuffledOptions, startTime, lastAnswerTime,
    answerTimes, longestRun, currentRun, sessionResults, shuffleDraws,
    gameMode, generateOptions, getCorrectOption, checkAnswer, cancelledEarly>>

gauntletState == <<themeVars, activeGameVars, userAnswer, gauntletCore>>

gauntletVars == <<clock, gauntletState>>

\* Lines 151-176, up to the call of selectWeightedCharacter inside
\* generateNewCharacter (line 163); the handler goes on in
\* selectWeightedCharacterDraw.
handleCorrectAnswer ==
  /\ vocabPc = "idle"
  /\ score < VocabMaxScore
  /\ score' = score + 1
  /\ vocabPc' = "handleCorrectAnswer"
  /\ redraws' = 0
  /\ UNCHANGED <<selectedWordObjs, correctChar, quizType, characterWeights,
                 gauntletVars>>

\* Variant: the score is decremented whatever its value.
handleWrongAnswerUnclamped ==
  /\ vocabPc = "idle"
  /\ score' = score - 1
  /\ characterWeights' =
       updateCharacterWeight(characterWeights, correctChar, FALSE)
  /\ UNCHANGED <<selectedWordObjs, correctChar, quizType, vocabPc, redraws,
                 gauntletVars>>

\* Lines 178-200.
handleWrongAnswer ==
  /\ vocabPc = "idle"
  /\ score' = IF score - 1 < 0 THEN 0 ELSE score - 1
  /\ characterWeights' =
       updateCharacterWeight(characterWeights, correctChar, FALSE)
  /\ UNCHANGED <<selectedWordObjs, correctChar, quizType, vocabPc, redraws,
                 gauntletVars>>

\* Lines 219-235, up to the call of selectWeightedCharacter.
handleSkip ==
  /\ vocabPc = "idle"
  /\ vocabPc' = "handleSkip"
  /\ redraws' = 0
  /\ UNCHANGED <<selectedWordObjs, score, correctChar, quizType,
                 characterWeights, gauntletVars>>

\* One draw of selectWeightedCharacter(sourceArray, correctChar) inside
\* generateNewCharacter (lines 202-217).  A rejected draw is drawn again; an
\* accepted one ends the loop and the handler runs to its end:
\* markCharacterSeen, setCorrectChar, the quiz type toggled and, in
\* handleCorrectAnswer, updateCharacterWeight(correctChar, true) of line 175
\* for the word that was answered.
selectWeightedCharacterDraw ==
  /\ vocabPc # "idle"
  /\ \E r \in 0..(TotalWeight(characterWeights, sourceArray) - 1) :
       LET newChar == drawWeighted(characterWeights, sourceArray, r)
           seen == markCharacterSeen(characterWeights, newChar)
       IN IF redrawDue(sourceArray, correctChar, newChar)
            THEN /\ redraws' = redraws + 1
                 /\ UNCHANGED <<correctChar, quizType, characterWeights,
                                vocabPc>>
            ELSE /\ correctChar' = newChar
                 /\ quizType' =
                      IF quizType = "meaning" THEN "reading" ELSE "meaning"
                 /\ characterWeights' =
                      IF vocabPc = "handleCorrectAnswer"
                        THEN updateCharacterWeight(seen, correctChar, TRUE)
                        ELSE seen
                 /\ vocabPc' = "idle"
                 /\ UNCHANGED redraws
  /\ UNCHANGED <<selectedWordObjs, score, gauntletVars>>

NextVocab ==
  \/ handleCorrectAnswer
  \/ handleWrongAnswer
  \/ handleSkip
  \/ selectWeightedCharacterDraw

SpecVocab == InitVocab /\ [][NextVocab]_vars

\* The retry loop of selectWeightedCharacter is synchronous code: once
\* entered it keeps running.
SpecVocabFair == SpecVocab /\ WF_vars(selectWeightedCharacterDraw)

\* ----------------------------------------------------------------- claims
\* A step that is one call of submitAnswer, and one that builds a result.
submitStep == submitCalls' = submitCalls + 1
resultBuilt == Len(sessionResults') = Len(sessionResults) + 1
newResult == sessionResults'[Len(sessionResults')]
sessionStarted == questionQueue # <<>>

\* C1: after every transition lives is within [0, maxLives].
C1_LivesWithinBudget == 0 <= lives /\ lives <= maxLives

\* C2: a session builds at most one result, and once it is built no later
\* submitAnswer changes the counters the result reports.
C2_ResultBuiltOnce ==
  /\ Len(sessionResults) <= 1
  /\ Len(sessionResults) = 1 =>
       /\ correctAnswers = sessionResults[1].correctAnswers
       /\ wrongAnswers = sessionResults[1].wrongAnswers

\* C3: a result with completed=false is built exactly by an incorrect answer
\* that brings lives to 0, a result with completed=true exactly by a correct
\* answer that brings correctAnswers to totalQuestions with lives > 0, and
\* no other step builds a result.
C3_TerminationStep ==
  /\ submitStep =>
       /\ (resultBuilt /\ ~newResult.completed)
            <=> (wrongAnswers' = wrongAnswers + 1 /\ lives' = 0)
       /\ (resultBuilt /\ newResult.completed)
            <=> (/\ correctAnswers' = correctAnswers + 1
                 /\ correctAnswers' = totalQuestions
                 /\ lives > 0)
  /\ ~submitStep => ~resultBuilt

C3_TerminationCauses == [][C3_TerminationStep]_vars

\* C4: with more than one item the queue generateQuestionQueue returns has
\* no two adjacent entries of the same item.
C4_NoAdjacentRepeat ==
  (items > 1 /\ questionQueue # <<>>) =>
    \A k \in 1..(Len(questionQueue) - 1) :
      getQuestionItemId(questionQueue[k].item)
        # getQuestionItemId(questionQueue[k + 1].item)

\* C5: the queue is never longer than 3 * totalQuestions, and a submitAnswer
\* lengthens it only from a length strictly below that cap (by one entry).
C5_RequeueStep ==
  (submitStep /\ Len(questionQueue') # Len(questionQueue)) =>
    /\ Len(questionQueue) < 3 * totalQuestions
    /\ Len(questionQueue') = Len(questionQueue) + 1

C5_QueueBounded ==
  /\ [](Len(questionQueue) <= 3 * totalQuestions)
  /\ [][C5_RequeueStep]_vars

\* Three wrong answers on a queue of one question: two were re-queued, the
\* third met the cap and was not.
C5_Witness ==
  /\ phase = "playing"
  /\ sessionResults = <<>>
  /\ totalQuestions = 1
  /\ wrongAnswers = 3
  /\ lives > 0
  /\ Len(questionQueue) = 3 * totalQuestions

\* C6: correctAnswers + wrongAnswers is the number of submitAnswer calls of
\* the session.
C6_CountersCountCalls == correctAnswers + wrongAnswers = submitCalls

C6_Witness ==
  phase = "playing" /\ correctAnswers >= 2 /\ wrongAnswers >= 2

\* C7 as claimed: after a non-terminating submitAnswer in a session with more
\* than one item, the entry now current is of another item than the entry
\* just answered.
C7_NeverSameItemStep ==
  (submitStep /\ ~resultBuilt /\ items > 1
     /\ currentIndex' + 1 <= Len(questionQueue')) =>
    getQuestionItemId(questionQueue'[currentIndex' + 1].item)
      # getQuestionItemId(questionQueue[currentIndex + 1].item)

C7_NeverSameItemTwice == [][C7_NeverSameItemStep]_vars

\* C7 as amended: after a non-terminating submitAnswer the entry now current
\* is of the item just answered only when every entry from it to the end of
\* the queue is of that item.
C7_RepeatOnlyWhenForcedStep ==
  (submitStep /\ ~resultBuilt /\ currentIndex' + 1 <= Len(questionQueue')) =>
    LET answeredId == getQuestionItemId(questionQueue[currentIndex + 1].item)
    IN getQuestionItemId(questionQueue'[currentIndex' + 1].item) = answeredId
         => \A k \in (currentIndex' + 1)..Len(questionQueue') :
              getQuestionItemId(questionQueue'[k].item) = answeredId

C7_RepeatOnlyWhenForced == [][C7_RepeatOnlyWhenForcedStep]_vars

\* The failed first entry of [A, B] was re-queued right behind itself and
\* the swap brought B forward: [A, B, A].
C7_Witness ==
  /\ phase = "playing"
  /\ items = 2 /\ repetitions = 1
  /\ wrongAnswers = 1 /\ correctAnswers = 0
  /\ currentIndex = 1
  /\ Len(questionQueue) = 3
  /\ questionQueue[3] = questionQueue[1]
  /\ questionQueue[2].item # questionQueue[1].item

\* C8: when a result with completed=true is built, every item has been
\* answered correctly exactly `repetitions` times.
C8_CompletedStep ==
  (resultBuilt /\ newResult.completed) =>
    \A id \in 1..items : characterStats'[id].correct = repetitions

C8_CompletedMeansAllMastered == [][C8_CompletedStep]_vars

\* C9: a session with only correct answers has built its result exactly when
\* totalQuestions answers were submitted, and that result is completed=true
\* with correctAnswers=totalQuestions, wrongAnswers=0 and all lives left.
C9_AllCorrectSession ==
  (sessionStarted /\ wrongAnswers = 0) =>
    /\ sessionResults = <<>> <=> submitCalls < totalQuestions
    /\ lives = maxLives
    /\ sessionResults # <<>> =>
         /\ sessionResults[1].completed
         /\ sessionResults[1].correctAnswers = totalQuestions
         /\ sessionResults[1].wrongAnswers = 0
         /\ sessionResults[1].livesRemaining = maxLives

C9_Witness ==
  /\ sessionStarted /\ wrongAnswers = 0
  /\ items = 1 /\ repetitions = 1 /\ maxLives = 3
  /\ submitCalls = 1
  /\ Len(sessionResults) = 1

C11_RegenStep ==
  (/\ submitStep
   /\ correctAnswers' = correctAnswers + 1
   /\ DIFFICULTY_CONFIG[difficulty].regenerates
   /\ lives < maxLives) =>
    IF correctSinceLastRegen + 1 = regenThreshold
      THEN /\ lives' = lives + 1
           /\ correctSinceLastRegen' = 0
           /\ livesRegenerated' = livesRegenerated + 1
      ELSE /\ lives' = lives
           /\ correctSinceLastRegen' = correctSinceLastRegen + 1
           /\ livesRegenerated' = livesRegenerated

C11_RegenCounter ==
  /\ correctSinceLastRegen < regenThreshold
  /\ (/\ DIFFICULTY_CONFIG[difficulty].regenerates
      /\ lives < maxLives
      /\ livesRegenerated = 0) => correctSinceLastRegen = currentStreak

C11_RegenAfterThreshold == [][C11_RegenStep]_vars /\ []C11_RegenCounter

\* A life came back while the session goes on.
C11_Witness ==
  /\ phase = "playing"
  /\ sessionResults = <<>>
  /\ livesRegenerated = 1
  /\ correctSinceLastRegen = 0
  /\ currentStreak = regenThreshold
  /\ lives = maxLives
  /\ correctAnswers < totalQuestions

\* C12: the regenThreshold computed at start is ceil(totalQuestions / 10)
\* clamped to 5..20: 5 up to 50 questions, 20 from 191 questions on, and
\* between them the least r with totalQuestions <= 10 * r (70 -> 7,
\* 100 -> 10, 10 -> 5, 500 -> 20).
C12_ThresholdIsClampedTenth ==
  phase = "playing" =>
    /\ 5 <= regenThreshold /\ regenThreshold <= 20
    /\ totalQuestions <= 50 => regenThreshold = 5
    /\ totalQuestions >= 191 => regenThreshold = 20
    /\ (50 < totalQuestions /\ totalQuestions < 191) =>
         /\ totalQuestions <= 10 * regenThreshold
         /\ totalQuestions > 10 * (regenThreshold - 1)
    /\ totalQuestions = 70 => regenThreshold = 7
    /\ totalQuestions = 100 => regenThreshold = 10
    /\ totalQuestions = 10 => regenThreshold = 5
    /\ totalQuestions = 500 => regenThreshold = 20

C12_Witness ==
  phase = "playing" /\ totalQuestions = 70 /\ regenThreshold = 7

\* The other half of C12, on whole sessions: the threshold of a started
\* session is the one of its question count, and no submitAnswer changes it.
ThresholdKeptStep == submitStep => regenThreshold' = regenThreshold

ThresholdKept ==
  /\ [][ThresholdKeptStep]_vars
  /\ [](sessionStarted =>
          regenThreshold = calculateRegenThreshold(totalQuestions))

\* C13: the accuracy of every result is its correctAnswers divided by its
\* correctAnswers + wrongAnswers, and is 0 when both are 0 (the fraction
\* always has a positive denominator).
C13_AccuracyOfResult ==
  \A k \in 1..Len(sessionResults) :
    LET r == sessionResults[k]
    IN /\ r.accuracy[2] > 0
       /\ IF r.correctAnswers + r.wrongAnswers = 0
            THEN r.accuracy[1] = 0
            ELSE r.accuracy[1] * (r.correctAnswers + r.wrongAnswers)
                   = r.correctAnswers * r.accuracy[2]

C13_Witness ==
  /\ Len(sessionResults) = 1
  /\ sessionResults[1].correctAnswers = 0
  /\ sessionResults[1].wrongAnswers = 0
  /\ sessionResults[1].accuracy[1] = 0

\* C14: in every result livesLost = startingLives - livesRemaining
\* + livesRegenerated, and that is the number of incorrect answers of the
\* session (the result's wrongAnswers).
C14_LivesLostOfResult ==
  \A k \in 1..Len(sessionResults) :
    LET r == sessionResults[k]
    IN /\ r.livesLost = r.startingLives - r.livesRemaining + r.livesRegenerated
       /\ r.livesLost = r.wrongAnswers

\* A result of a session in which a lost life came back.
C14_Witness ==
  /\ Len(sessionResults) = 1
  /\ sessionResults[1].livesRegenerated = 1
  /\ sessionResults[1].wrongAnswers = 2
  /\ sessionResults[1].livesRemaining = sessionResults[1].startingLives - 1

\* C15: two submitAnswer calls that read the same render leave the state
\* two calls one after the other leave: every incorrect one took a life
\* (where lives do not regenerate), two correct ones raised the streak by
\* two, and two calls that do not end the session moved on two questions.
C15_TwoCallsStep ==
  (submitCalls' = submitCalls + 2) =>
    LET incorrect == wrongAnswers' - wrongAnswers
        correct == correctAnswers' - correctAnswers
    IN /\ incorrect + correct = 2
       /\ ~DIFFICULTY_CONFIG[difficulty].regenerates =>
            lives' = lives - incorrect
       /\ incorrect = 0 =>
            /\ currentStreak' = currentStreak + 2
            /\ bestStreak' = Max2(bestStreak, currentStreak + 2)
       /\ (/\ lives - incorrect > 0
           /\ correctAnswers + correct < totalQuestions
           /\ currentIndex + 2 <= Len(questionQueue)) =>
            currentIndex' = currentIndex + 2

C15_TwoCallsAsInSequence == [][C15_TwoCallsStep]_vars

\* A step that is one call of handleCancel.
cancelStep == phase = "playing" /\ phase' = "pregame"

\* C16: handleCancel hands nothing to saveSession and builds no result, and
\* after a session was cancelled before it had built a result, no result is
\* built for it and the phase does not become results.
C16_CancelStep ==
  cancelStep =>
    /\ pendingSaves' = pendingSaves
    /\ Len(sessionResults') <= Len(sessionResults)

C16_NoResultAfterEarlyCancel ==
  cancelledEarly => (sessionResults = <<>> /\ phase # "results")

C16_CancelPersistsNothing ==
  [][C16_CancelStep]_vars /\ []C16_NoResultAfterEarlyCancel

\* The part of C16 about results and persistence alone.
CancelBuildsNothing ==
  [][C16_CancelStep]_vars /\ [](cancelledEarly => sessionResults = <<>>)

\* C17: while the component is mounted the phase changes only from pregame
\* to playing, from playing to results once the session has built its
\* result, from results to pregame or playing, and from playing to pregame
\* in modal mode.
C17_PhaseStep ==
  (mounted' /\ phase' # phase) =>
    \/ phase = "pregame" /\ phase' = "playing"
    \/ phase = "playing" /\ phase' = "results" /\ sessionResults # <<>>
    \/ phase = "results" /\ phase' = "pregame"
    \/ phase = "results" /\ phase' = "playing"
    \/ phase = "playing" /\ phase' = "pregame" /\ ~isGauntletRoute

C17_PhaseEdges == [][C17_PhaseStep]_vars

\* C18: with an empty item list the phase stays pregame, no queue is
\* generated, the auto-start does not run and no result is built or saved.
C18_EmptyListNeverStarts ==
  items = 0 =>
    /\ phase = "pregame"
    /\ questionQueue = <<>>
    /\ ~hasAutoStarted
    /\ sessionResults = <<>>
    /\ sessionStats = "null"
    /\ pendingSaves = 0

\* The component mounted on the gauntlet route with no items: the
\* auto-start effect has declined and EmptyState is rendered.
C18_Witness ==
  /\ items = 0
  /\ isGauntletRoute
  /\ mounted
  /\ rendersEmptyState
  /\ ~autoStartDue
  /\ ~rendersPreGame

\* The selected mode lacks a collaborator it needs.
modeMisconfigured ==
  \/ gameMode = "Pick" /\ ~(generateOptions /\ getCorrectOption)
  \/ gameMode = "Type" /\ ~checkAnswer

\* C19: with Pick mode selected without generateOptions and
\* getCorrectOption, or Type mode without checkAnswer, no start brings the
\* phase to playing.
C19_MisconfiguredNeverPlays == modeMisconfigured => phase # "playing"

\* A step that is one call of handleStart.
startStep == phase # "playing" /\ phase' = "playing"

\* C20: handleStart, from pregame or from results, leaves currentIndex = 0,
\* lives = maxLives = the lives of the difficulty, every counter and the
\* per-item tallies at zero, the threshold of the question count and a
\* freshly generated queue; between starts only submitAnswer changes the
\* queue, the lives or the counters of the mounted component.
C20_StartStep ==
  /\ startStep =>
       /\ currentIndex' = 0
       /\ lives' = DIFFICULTY_CONFIG[difficulty].lives
       /\ maxLives' = DIFFICULTY_CONFIG[difficulty].lives
       /\ correctSinceLastRegen' = 0
       /\ correctAnswers' = 0
       /\ wrongAnswers' = 0
       /\ currentStreak' = 0
       /\ bestStreak' = 0
       /\ livesRegenerated' = 0
       /\ characterStats' = EmptyCharacterStats
       /\ regenThreshold' = calculateRegenThreshold(totalQuestions)
       /\ questionQueue' \in GeneratedQueues(items, repetitions)
  /\ (~startStep /\ ~submitStep /\ mounted') => UNCHANGED sessionVars

C20_StartReinitializes == [][C20_StartStep]_vars

\* A session started after an earlier one had ended and been saved.
C20_Witness ==
  /\ phase = "playing"
  /\ sessionStats = "stats"
  /\ submitCalls = 0
  /\ pendingSaves = 0
  /\ currentIndex = 0
  /\ lives = maxLives
  /\ bestStreak = 0
  /\ wrongAnswers = 0

\* C21: within a session currentIndex never decreases: a submitAnswer that
\* does not end the session increases it by exactly one, a submitAnswer that
\* ends the session leaves it unchanged, and no other step of the mounted
\* component changes it except handleStart, which opens the next session.
C21_IndexStep ==
  /\ (submitStep /\ ~resultBuilt) => currentIndex' = currentIndex + 1
  /\ (submitStep /\ resultBuilt) => currentIndex' = currentIndex
  /\ (~submitStep /\ ~startStep /\ mounted') => currentIndex' = currentIndex

C21_IndexNeverDecreases == [][C21_IndexStep]_vars

\* A session ended by its last answer after correct and wrong answers had
\* moved the index.
C21_Witness ==
  /\ phase = "playing"
  /\ Len(sessionResults) = 1
  /\ correctAnswers >= 1
  /\ wrongAnswers >= 1
  /\ currentIndex = submitCalls - 1
  /\ currentIndex >= 2

\* C22: whatever sequence of correct and wrong answers updates the weights,
\* every weight stays strictly positive and within [WeightFloor,
\* WeightCeiling]; the update for a correct answer does not increase the
\* answered word's weight (and lowers it unless it is at the floor), the
\* update for a wrong answer does not decrease it (and raises it unless it
\* is at the ceiling), and no update touches another word's weight.
C22_WeightStep ==
  LET old(item) == weightOf(characterWeights, item)
      new(item) == weightOf(characterWeights', item)
      others == \A item \in 1..selectedWordObjs :
                  item # correctChar => new(item) = old(item)
  IN /\ (vocabPc = "handleCorrectAnswer" /\ vocabPc' = "idle") =>
          /\ new(correctChar) <= old(correctChar)
          /\ new(correctChar) < old(correctChar)
               \/ old(correctChar) = WeightFloor
          /\ others
     /\ (vocabPc = "idle" /\ vocabPc' = "idle") =>
          /\ new(correctChar) >= old(correctChar)
          /\ new(correctChar) > old(correctChar)
               \/ old(correctChar) = WeightCeiling
          /\ others

C22_WeightsBounded ==
  /\ [](\A item \in DOMAIN characterWeights :
          /\ characterWeights[item] > 0
          /\ WeightFloor <= characterWeights[item]
          /\ characterWeights[item] <= WeightCeiling)
  /\ [][C22_WeightStep]_vars

\* One word driven to the floor by correct answers, the other to the
\* ceiling by wrong ones.
C22_Witness ==
  /\ selectedWordObjs = 2
  /\ vocabPc = "idle"
  /\ \E a, b \in DOMAIN characterWeights :
       /\ characterWeights[a] = WeightFloor
       /\ characterWeights[b] = WeightCeiling

\* C23: selectWeightedCharacter on a non-empty candidate list terminates
\* and returns one of the candidates; with an exclude and more than one
\* candidate a draw equal to exclude is redrawn at most MaxRedraws times,
\* and the excluded item is accepted only after that (or when it is the
\* only candidate).
C23_SelectStep ==
  (vocabPc # "idle" /\ vocabPc' = "idle") =>
    /\ correctChar' \in 1..selectedWordObjs
    /\ correctChar' = correctChar =>
         (selectedWordObjs = 1 \/ redraws = MaxRedraws)

C23_SelectionTerminates ==
  /\ [](redraws <= MaxRedraws /\ correctChar \in 1..selectedWordObjs)
  /\ [][C23_SelectStep]_vars
  /\ (vocabPc # "idle") ~> (vocabPc = "idle")

\* A selection among two words that ended after every redraw was used.
C23_Witness ==
  /\ selectedWordObjs = 2
  /\ vocabPc = "idle"
  /\ redraws = MaxRedraws

\* C24: the score of the vocabulary input game is never negative; a wrong
\* answer lowers it by one, or leaves it at 0 when it is 0, and a correct
\* answer raises it by one.
C24_ScoreStep ==
  /\ (vocabPc = "idle" /\ vocabPc' = "idle") =>
       score' = IF score = 0 THEN 0 ELSE score - 1
  /\ (vocabPc = "idle" /\ vocabPc' = "handleCorrectAnswer") =>
       score' = score + 1
  /\ ~(vocabPc = "idle" /\ vocabPc' \in {"idle", "handleCorrectAnswer"}) =>
       score' = score

C24_ScoreNeverNegative == [](score >= 0) /\ [][C24_ScoreStep]_vars

\* A wrong answer given at score 0: the word's weight has grown, the score
\* is still 0.
C24_Witness ==
  /\ selectedWordObjs >= 1
  /\ vocabPc = "idle"
  /\ score = 0
  /\ weightOf(characterWeights, correctChar) > DefaultWeight

\* C25: submitAnswer(incorrect) increments wrongAnswers by one, resets
\* currentStreak to 0, decrements lives by exactly one and increments the
\* answered item's wrong tally by one; it leaves bestStreak, correctAnswers,
\* livesRegenerated, the item's correct tally and every other item's
\* tallies unchanged.
C25_IncorrectStep ==
  submitAnswer(FALSE) =>
    LET charId == getQuestionItemId(currentQuestion.item)
    IN /\ wrongAnswers' = wrongAnswers + 1
       /\ currentStreak' = 0
       /\ lives' = lives - 1
       /\ characterStats'[charId].wrong = characterStats[charId].wrong + 1
       /\ characterStats'[charId].correct = characterStats[charId].correct
       /\ \A id \in 1..items :
            id # charId => characterStats'[id] = characterStats[id]
       /\ bestStreak' = bestStreak
       /\ correctAnswers' = correctAnswers
       /\ livesRegenerated' = livesRegenerated

C25_IncorrectEffect == [][C25_IncorrectStep]_vars

\* An incorrect answer that broke a streak of two, in a session of more
\* than one item.
C25_Witness ==
  /\ phase = "playing"
  /\ sessionResults = <<>>
  /\ items >= 2
  /\ wrongAnswers = 1
  /\ currentStreak = 0
  /\ bestStreak >= 2
  /\ lives = maxLives - 1

\* C26: submitAnswer(correct) increments correctAnswers and currentStreak by
\* one, sets bestStreak to the larger of bestStreak and the new
\* currentStreak, increments the answered item's correct tally by one,
\* never decreases lives and leaves wrongAnswers, the item's wrong tally and
\* every other item's tallies unchanged.
C26_CorrectStep ==
  submitAnswer(TRUE) =>
    LET charId == getQuestionItemId(currentQuestion.item)
    IN /\ correctAnswers' = correctAnswers + 1
       /\ currentStreak' = currentStreak + 1
       /\ bestStreak' = Max2(bestStreak, currentStreak')
       /\ characterStats'[charId].correct = characterStats[charId].correct + 1
       /\ characterStats'[charId].wrong = characterStats[charId].wrong
       /\ \A id \in 1..items :
            id # charId => characterStats'[id] = characterStats[id]
       /\ lives' >= lives
       /\ wrongAnswers' = wrongAnswers

C26_CorrectEffect == [][C26_CorrectStep]_vars

\* A correct answer that raised the best streak and brought a life back,
\* after a wrong answer.
C26_Witness ==
  /\ phase = "playing"
  /\ sessionResults = <<>>
  /\ wrongAnswers >= 1
  /\ livesRegenerated >= 1
  /\ correctSinceLastRegen = 0
  /\ correctAnswers >= 3
  /\ currentStreak = bestStreak
  /\ currentStreak >= 2

\* The number of entries of queue equal to entry.
CountOf(queue, entry) == Cardinality({k \in 1..Len(queue) : queue[k] = entry})

\* C27: a non-terminating incorrect answer on a queue below the cap
\* lengthens the queue by exactly one entry, a clone of the failed entry
\* spliced 2..5 slots ahead of the answered index and not beyond the end of
\* the queue, or 1 slot ahead when fewer than 2 entries remain behind the
\* answered one (the look-ahead swap then runs on the spliced queue); no
\* submitAnswer removes an entry or shortens the queue.
C27_SpliceStep ==
  LET failed == questionQueue[currentIndex + 1]
      remaining == Len(questionQueue) - (currentIndex + 1)
      slots == IF remaining < 2 THEN {1} ELSE 2..Min2(5, remaining)
  IN /\ (/\ submitAnswer(FALSE)
          /\ ~resultBuilt
          /\ Len(questionQueue) < 3 * totalQuestions) =>
          /\ Len(questionQueue') = Len(questionQueue) + 1
          /\ \E slot \in slots :
               /\ currentIndex + slot <= Len(questionQueue)
               /\ questionQueue' =
                    ensureNextQuestionIsDifferent(
                      SpliceIn(questionQueue, currentIndex + slot, failed),
                      currentIndex)
          /\ \A k \in 1..(currentIndex + 1) :
               questionQueue'[k] = questionQueue[k]
          /\ CountOf(questionQueue', failed)
               = CountOf(questionQueue, failed) + 1
     /\ submitStep =>
          /\ Len(questionQueue') >= Len(questionQueue)
          /\ \A k \in 1..Len(questionQueue) :
               CountOf(questionQueue', questionQueue[k])
                 >= CountOf(questionQueue, questionQueue[k])

C27_CloneSplicedAhead == [][C27_SpliceStep]_vars

\* The failed entry stands again five slots behind the answered one.
C27_Witness ==
  /\ phase = "playing"
  /\ sessionResults = <<>>
  /\ wrongAnswers = 1
  /\ currentIndex >= 1
  /\ Len(questionQueue) = totalQuestions + 1
  /\ Len(questionQueue) >= currentIndex + 5
  /\ questionQueue[currentIndex + 5] = questionQueue[currentIndex]

\* C28: the queue generateQuestionQueue returns is a permutation of the
\* cross product of the items and the repetitions: its length is
\* items.length * repetitions, every item stands in it exactly repetitions
\* times, and the index of every entry is its position 0..length-1 in the
\* queue as shuffled and stabilized.
C28_QueueIsPermutation ==
  questionQueue # <<>> =>
    /\ Len(questionQueue) = items * repetitions
    /\ \A k \in 1..Len(questionQueue) :
         /\ questionQueue[k].item \in 1..items
         /\ questionQueue[k].index = k - 1
    /\ \A item \in 1..items :
         Cardinality({k \in 1..Len(questionQueue) :
                        questionQueue[k].item = item}) = repetitions

\* A queue of three items twice each whose order the stabilization pass
\* changed after the shuffle.
C28_Witness ==
  /\ items = 3
  /\ repetitions = 2
  /\ questionQueue # <<>>
  /\ questionQueue #
       SetIndices(FisherYates(CrossProduct(items, repetitions), shuffleDraws,
                              items * repetitions - 1))

\* C29: after a non-terminating submitAnswer, correct or incorrect, the
\* entry now current is of another item than the answered entry whenever an
\* entry of another item stands behind the answered index, before or after
\* the step; the answered entry keeps its place, and the entries of the
\* queue are the entries it had, with one more copy of the answered entry
\* when the queue grew.
C29_StabilizeStep ==
  (submitStep /\ ~resultBuilt) =>
    LET answered == questionQueue[currentIndex + 1]
        answeredId == getQuestionItemId(answered.item)
        otherBehind(queue) ==
          \E k \in (currentIndex + 2)..Len(queue) :
            getQuestionItemId(queue[k].item) # answeredId
        grew == Len(questionQueue') = Len(questionQueue) + 1
    IN /\ (otherBehind(questionQueue) \/ otherBehind(questionQueue')) =>
            getQuestionItemId(questionQueue'[currentIndex' + 1].item)
              # answeredId
       /\ questionQueue'[currentIndex + 1] = answered
       /\ grew \/ Len(questionQueue') = Len(questionQueue)
       /\ \A k \in 1..Len(questionQueue') :
            CountOf(questionQueue', questionQueue'[k])
              = CountOf(questionQueue, questionQueue'[k])
                  + (IF grew /\ questionQueue'[k] = answered THEN 1 ELSE 0)

C29_NextDiffersWhenPossible == [][C29_StabilizeStep]_vars

\* In a session of several items the item just answered is asked again:
\* only entries of that item were left.
C29_Witness ==
  /\ phase = "playing"
  /\ sessionResults = <<>>
  /\ items >= 2
  /\ currentIndex >= 1
  /\ hasCurrentQuestion
  /\ questionQueue[currentIndex + 1].item = questionQueue[currentIndex].item

\* C30: in every reachable state 0 <= correctSinceLastRegen <
\* regenThreshold; every incorrect answer resets the counter to 0; a correct
\* answer changes it only when the difficulty regenerates and lives <
\* maxLives (by one, or back to 0 on reaching the threshold) and leaves it
\* unchanged otherwise.
C30_CounterStep ==
  /\ submitAnswer(FALSE) => correctSinceLastRegen' = 0
  /\ submitAnswer(TRUE) =>
       IF DIFFICULTY_CONFIG[difficulty].regenerates /\ lives < maxLives
         THEN correctSinceLastRegen' =
                IF correctSinceLastRegen + 1 >= regenThreshold
                  THEN 0
                  ELSE correctSinceLastRegen + 1
         ELSE correctSinceLastRegen' = correctSinceLastRegen

C30_RegenCounterInRange ==
  /\ [](0 <= correctSinceLastRegen /\ correctSinceLastRegen < regenThreshold)
  /\ [][C30_CounterStep]_vars

\* The counter stands one below the threshold after a wrong answer and
\* correct answers given below full lives.
C30_Witness ==
  /\ phase = "playing"
  /\ sessionResults = <<>>
  /\ wrongAnswers >= 1
  /\ lives < maxLives
  /\ correctSinceLastRegen = regenThreshold - 1

\* C31: under a difficulty that does not regenerate, no step of a session
\* raises lives and livesRegenerated stays 0 from the start of the session.
C31_NoRegenStep ==
  (~DIFFICULTY_CONFIG[difficulty].regenerates /\ phase = "playing"
     /\ phase' = "playing") =>
    /\ lives' <= lives
    /\ livesRegenerated' = 0

C31_NoRegenWithoutPermission == [][C31_NoRegenStep]_vars

\* A life was lost and a streak as long as the threshold followed, under a
\* difficulty that does not regenerate: the life did not come back.
C31_Witness ==
  /\ ~DIFFICULTY_CONFIG[difficulty].regenerates
  /\ phase = "playing"
  /\ wrongAnswers >= 1
  /\ currentStreak >= regenThreshold
  /\ 0 < lives /\ lives < maxLives
  /\ livesRegenerated = 0

\* C34: in every reachable state of a session that is playing and in which
\* no submitAnswer has ended the session yet, currentIndex < queue.length:
\* a current question exists.
C34_NeverStuck ==
  (phase = "playing" /\ sessionStarted /\ sessionResults = <<>>) =>
    hasCurrentQuestion

\* C35: in every reachable state bestStreak >= currentStreak, bestStreak is
\* the length of the longest run of consecutive correct answers given so
\* far in the session and currentStreak the length of the run still going;
\* the bestStreak of a result is that length with the final answer counted.
C35_ResultStep ==
  (submitStep /\ resultBuilt) => newResult.bestStreak = longestRun'

C35_BestStreakIsLongestRun ==
  /\ [](/\ bestStreak >= currentStreak
        /\ bestStreak = longestRun
        /\ currentStreak = currentRun)
  /\ [][C35_ResultStep]_vars

\* A session completed by the answer that made its last run the longest.
C35_Witness ==
  /\ Len(sessionResults) = 1
  /\ sessionResults[1].completed
  /\ wrongAnswers >= 1
  /\ sessionResults[1].bestStreak = currentStreak
  /\ sessionResults[1].bestStreak >= 2
  /\ sessionResults[1].bestStreak < correctAnswers

\* The sums of the per-item tallies of a characterStats record.
RECURSIVE SumOfTally(_, _, _)
SumOfTally(stats, n, correct) ==
  IF n = 0 THEN 0
  ELSE SumOfTally(stats, n - 1, correct)
         + (IF correct THEN stats[n].correct ELSE stats[n].wrong)

\* C36: the per-item tally of every result accounts for every answer of the
\* session, the terminating one included: its correct counts sum to the
\* result's correctAnswers and its wrong counts to the result's
\* wrongAnswers.
C36_TallyStep ==
  (submitStep /\ resultBuilt /\ sessionResults = <<>>) =>
    /\ SumOfTally(newResult.characterStats, items, TRUE)
         = newResult.correctAnswers
    /\ SumOfTally(newResult.characterStats, items, FALSE)
         = newResult.wrongAnswers

C36_TallyAccountsForEveryAnswer == [][C36_TallyStep]_vars

\* C37: the life figures of a result are those of the state the terminating
\* answer leaves: livesRemaining is lives and livesRegenerated the number
\* of regenerations, also when the terminating correct answer itself
\* brings a life back.
C37_LifeFiguresStep ==
  (submitStep /\ resultBuilt /\ sessionResults = <<>>) =>
    /\ newResult.livesRemaining = lives'
    /\ newResult.livesRegenerated = livesRegenerated'

C37_LifeFiguresAgree == [][C37_LifeFiguresStep]_vars


\* ------------------------------------------------------- answer timing
\* Bounds of the timing runs: the readings of Date.now().
TimingMaxClock == 4
TimingMaxReps == 2
TimingMaxLives == 2

\* The steps Date.now() takes between two handlers; the wall clock is not
\* monotonic, so one of them goes back.
ClockSteps == {-1, 1, 2}

\* Line 437 (and 281): the reading of Date.now() changes between handlers.
Tick ==
  /\ \E d \in ClockSteps :
       /\ clock + d \in 1..TimingMaxClock
       /\ clock' = clock + d
  /\ UNCHANGED <<gauntletState, vocabVars>>

InitTiming ==
  /\ items = 1
  /\ repetitions \in 1..TimingMaxReps
  /\ isGauntletRoute \in BOOLEAN
  /\ shuffleDraws = <<>>
  /\ difficulty \in [lives : 1..TimingMaxLives, regenerates : {FALSE}]
  /\ AllCollaborators
  /\ FreshMount
  /\ VocabInputGameUnmounted

NextTiming ==
  \/ Next
  \/ Tick

SpecTiming == InitTiming /\ [][NextTiming]_vars


\* C33, as the code has it: submitAnswer records the time since the previous
\* answer, and for the first answer of a session the time since handleStart,
\* whenever that time is strictly positive, and records nothing otherwise; so
\* there are at most as many durations as answers, and each is positive.
C33_RecordStep ==
  submitStep =>
    LET since == IF submitCalls = 0 THEN startTime ELSE lastAnswerTime
    IN /\ lastAnswerTime' = clock
       /\ answerTimes' = IF clock - since > 0
                            THEN Append(answerTimes, clock - since)
                            ELSE answerTimes

C33_DurationsRecorded ==
  /\ [](/\ Len(answerTimes) <= submitCalls
        /\ \A i \in 1..Len(answerTimes) : answerTimes[i] > 0)
  /\ [][C33_RecordStep]_vars

\* The first answer of a session, timed from the start of the session, and
\* a later answer that came at the clock reading of the one before.
C33_Witness ==
  /\ submitCalls = 2
  /\ Len(answerTimes) = 1
  /\ answerTimes[1] = lastAnswerTime - startTime

\* C33 as stated: no duration is recorded for the first answer of a
\* session, so there are fewer durations than answers.
C33_FirstAnswerUntimed ==
  submitCalls >= 1 => Len(answerTimes) <= submitCalls - 1


\* C32: in Pick mode, after a start and after every submitAnswer that does
\* not end the session, shuffledOptions is the option set generated for the
\* entry that is now current; in Type mode no options are generated.
C32_OptionsOfCurrent ==
  (/\ gameMode = "Pick"
   /\ phase = "playing"
   /\ sessionStarted
   /\ sessionResults = <<>>
   /\ hasCurrentQuestion)
    => shuffledOptions = [generatedFor |-> currentQuestion.item]

C32_TypeStep == gameMode = "Type" => shuffledOptions' = shuffledOptions

C32_OptionsForCurrentEntry == []C32_OptionsOfCurrent /\ [][C32_TypeStep]_vars

\* The same, where generateOptions is given.
C32_GivenGenerateOptions ==
  [](generateOptions => C32_OptionsOfCurrent) /\ [][C32_TypeStep]_vars


\* ------------------------------------------- ActiveGame (ReturnFromGame.tsx)
\* Bounds of the runs with the child component: the item count, the largest
\* repetition count and the largest life count.
ActiveGameItems == 2
ActiveGameMaxReps == 2
ActiveGameMaxLives == 2

\* A text is a sequence of characters.  The collaborators of the config are
\* functions of the caller: an item's answer is its letter, the options
\* generateOptions returns are the answers of the items, and checkAnswer
\* accepts the item's answer.
Letters == <<"a", "b", "c">>
AnswerOf(item) == <<Letters[item]>>
Texts == {<<>>, <<" ">>, <<"a">>, <<"a", " ">>, <<" ", "b">>}
OptionsOf(options) ==
  IF options = NoOptions THEN {} ELSE {AnswerOf(k) : k \in 1..items}
checkAnswerOf(question, answer) == answer = AnswerOf(question)

\* String.prototype.trim for the texts above.
RECURSIVE trimStart(_)
trimStart(t) ==
  IF t # <<>> /\ Head(t) = " " THEN trimStart(Tail(t)) ELSE t
RECURSIVE trimEnd(_)
trimEnd(t) ==
  IF t # <<>> /\ t[Len(t)] = " " THEN trimEnd(SubSeq(t, 1, Len(t) - 1)) ELSE t
trim(t) == trimEnd(trimStart(t))

\* part_004 lines 680-683: `${getItemId(item)}-${index}`, or '' without a
\* current question.  The pair stands for the string.
questionKey ==
  IF hasCurrentQuestion
    THEN <<getQuestionItemId(currentQuestion.item), currentQuestion.index>>
    ELSE <<>>

\* ReturnFromGame.tsx lines 497-500; Gauntlet passes getCorrectOption or
\* () => '' (part_004 line 756).
correctAnswer ==
  IF ~hasCurrentQuestion \/ ~getCorrectOption
    THEN <<>>
    ELSE AnswerOf(currentQuestion.item)

\* The commit of a render of the parent has work left for the child: the
\* instance is created or destroyed, or the reset effect (lines 452-464)
\* runs because questionKey changed.  React runs it before the next event.
effectDue ==
  \/ activeGameMounted # rendersActiveGame
  \/ rendersActiveGame /\ seenKey # questionKey

\* The child is on the screen and takes events (line 591: it renders
\* nothing without a current question).
activeGameShown == rendersActiveGame /\ ~effectDue /\ hasCurrentQuestion

\* The mount of an instance with its first run of the reset effect, a later
\* run of the reset effect (lines 452-464), or the unmount.
ActiveGameCommit ==
  /\ effectDue
  /\ activeGameMounted' = rendersActiveGame
  /\ placedTiles' = <<>>
  /\ bottomBarState' = "check"
  /\ isChecking' = FALSE
  /\ checkedResult' = <<>>
  /\ checkedAfter' = 0
  /\ seenKey' = IF rendersActiveGame THEN questionKey ELSE <<>>
  /\ userAnswer' = IF rendersActiveGame /\ gameMode = "Type"
                     THEN <<>>
                     ELSE userAnswer
  /\ UNCHANGED <<vocabVars, themeVars, clock, gauntletCore>>

\* Line 576.
toggleLocked == isChecking

\* Lines 573-588.
handleTileClick(char) ==
  /\ activeGameShown
  /\ gameMode = "Pick"
  /\ char \in OptionsOf(shuffledOptions)
  /\ placedTiles' =
       IF toggleLocked THEN placedTiles
       ELSE IF \E i \in 1..Len(placedTiles) : placedTiles[i] = char
         THEN SelectSeq(placedTiles, LAMBDA c : c # char)
         ELSE Append(placedTiles, char)
  /\ UNCHANGED <<activeGameMounted, bottomBarState, isChecking, checkedResult,
                 seenKey, checkedAfter, userAnswer, vocabVars, themeVars,
                 clock, gauntletCore>>

\* The input of Type mode (lines 714-719), disabled once checked.
handleInputChange(text) ==
  /\ activeGameShown
  /\ gameMode = "Type"
  /\ ~isChecking
  /\ userAnswer' = text
  /\ UNCHANGED <<activeGameVars, vocabVars, themeVars, clock, gauntletCore>>

\* Variant: the first placed tile decides, however many are placed.
pickIsCorrectFirstTile == placedTiles[1] = correctAnswer

\* Lines 536-537.
pickIsCorrect == Len(placedTiles) = 1 /\ placedTiles[1] = correctAnswer

\* Lines 503-560; the bottom bar calls it while its state is 'check'
\* (line 848).
handleCheck ==
  /\ activeGameShown
  /\ bottomBarState = "check"
  /\ LET trimmed == trim(userAnswer)
         answered == IF gameMode = "Type" THEN trimmed # <<>>
                                          ELSE placedTiles # <<>>
         isCorrect == IF gameMode = "Type"
                        THEN IF checkAnswer
                               THEN checkAnswerOf(currentQuestion.item, trimmed)
                               ELSE FALSE
                        ELSE pickIsCorrect
         selectedOption == IF gameMode = "Type" THEN trimmed
                                                ELSE placedTiles[1]
     IN IF answered
          THEN /\ isChecking' = TRUE
               /\ checkedResult' = <<[selectedOption |-> selectedOption,
                                      isCorrect |-> isCorrect]>>
               /\ bottomBarState' = IF isCorrect THEN "correct" ELSE "wrong"
               /\ checkedAfter' = submitCalls
          ELSE UNCHANGED <<isChecking, checkedResult, bottomBarState,
                           checkedAfter>>
  /\ UNCHANGED <<activeGameMounted, placedTiles, seenKey, userAnswer,
                 vocabVars, themeVars, clock, gauntletCore>>

\* Lines 563-570; the bottom bar calls it while its state is 'correct' or
\* 'wrong' (line 848).  onSubmit is handleActiveGameSubmit (part_004 lines
\* 673-678), which hands isCorrect to submitAnswer.
handleContinue ==
  /\ activeGameShown
  /\ bottomBarState # "check"
  /\ IF checkedResult # <<>>
       THEN submitAnswer(checkedResult[1].isCorrect)
       ELSE UNCHANGED vars

InitActiveGame ==
  /\ items = ActiveGameItems
  /\ repetitions \in 1..ActiveGameMaxReps
  /\ isGauntletRoute \in BOOLEAN
  /\ difficulty \in [lives : 1..ActiveGameMaxLives, regenerates : {FALSE}]
  /\ shuffleDraws = <<>>
  /\ gameMode \in {"Pick", "Type"}
  /\ generateOptions = TRUE
  /\ getCorrectOption = TRUE
  /\ checkAnswer = TRUE
  /\ FreshMount
  /\ VocabInputGameUnmounted

\* The handlers of the parent run on a committed render, after the effects
\* of the child.
NextActiveGame ==
  \/ ActiveGameCommit
  \/ ~effectDue /\ StartClicked
  \/ ~effectDue /\ RestartClicked
  \/ ~effectDue /\ AutoStart
  \/ ~effectDue /\ ChangeSettings
  \/ ~effectDue /\ handleCancel
  \/ ~effectDue /\ saveSessionResolved
  \/ \E k \in 1..ActiveGameItems : handleTileClick(AnswerOf(k))
  \/ \E text \in Texts : handleInputChange(text)
  \/ handleCheck
  \/ handleContinue

SpecActiveGame == InitActiveGame /\ [][NextActiveGame]_vars


\* C38: every question the engine makes current gets a fresh answer
\* opportunity: after a submitAnswer that does not end the session the
\* questionKey differs from the key of the question before, so the reset
\* effect clears the recorded check and no onSubmit is issued off a check
\* that was recorded before the last submitAnswer -- the re-queued clone of
\* the entry just failed included.
C38_KeyStep ==
  (submitStep /\ sessionResults' = <<>> /\ currentIndex' + 1 <= Len(questionQueue'))
    => questionKey' # questionKey

C38_CheckIsOfThisQuestion ==
  (activeGameShown /\ sessionResults = <<>> /\ checkedResult # <<>>)
    => checkedAfter = submitCalls

C38_FreshAnswerOpportunity ==
  []C38_CheckIsOfThisQuestion /\ [][C38_KeyStep]_vars


\* C39: ActiveGame locks the result at check time.  A check is recorded only
\* with an answer (a placed tile in Pick mode, a text that is not blank in
\* Type mode); in Pick mode it is correct iff exactly one tile is placed and
\* it is getCorrectOption of the current question; once checked the placed
\* tiles and the recorded pair stay as they are until the reset; and
\* onSubmit is called only with a recorded check, with its isCorrect.
C39_CheckStep ==
  (checkedResult' # checkedResult /\ checkedResult' # <<>>) =>
    /\ checkedResult = <<>>
    /\ isChecking'
    /\ IF gameMode = "Pick"
         THEN /\ placedTiles # <<>>
              /\ checkedResult'[1].selectedOption = placedTiles[1]
              /\ checkedResult'[1].isCorrect =
                   (/\ Len(placedTiles) = 1
                    /\ placedTiles[1] = AnswerOf(currentQuestion.item))
         ELSE /\ trim(userAnswer) # <<>>
              /\ checkedResult'[1].selectedOption = trim(userAnswer)

C39_LockStep ==
  isChecking =>
    \/ placedTiles' = placedTiles /\ checkedResult' = checkedResult
    \/ placedTiles' = <<>> /\ checkedResult' = <<>> /\ ~isChecking'

C39_SubmitStep ==
  submitStep =>
    /\ checkedResult # <<>>
    /\ (correctAnswers' = correctAnswers + 1) = checkedResult[1].isCorrect
    /\ (wrongAnswers' = wrongAnswers + 1) = ~checkedResult[1].isCorrect

C39_ResultLockedAtCheck ==
  /\ [](isChecking = (checkedResult # <<>>))
  /\ [][C39_CheckStep /\ C39_LockStep /\ C39_SubmitStep]_vars

\* After a first answer went through, a check of two placed tiles, the
\* first of them the correct one, is recorded as wrong.
C39_Witness ==
  /\ gameMode = "Pick"
  /\ submitCalls = 1
  /\ isChecking
  /\ Len(placedTiles) = 2
  /\ placedTiles[1] = correctAnswer
  /\ checkedResult # <<>>
  /\ ~checkedResult[1].isCorrect
  /\ checkedResult[1].selectedOption = correctAnswer


\* ------------------------------------------------- theme lookup (part_003)
\* A theme is known by its id and its main colour.  The built-in themes
\* (themeDefinitions) stand for the themes of themeSets, one of them of the
\* Premium group; the custom themes are the templates of the store.
BuiltInThemeIds == {"light", "neon-city"}
PremiumThemeIds == {"neon-city"}
CustomThemeIds == {"custom-1", "custom-2"}
ThemeColours == {1, 2}
QueryIds == BuiltInThemeIds \cup CustomThemeIds \cup {"neon-city-glass", "none"}

\* The values the store's themes can take: templates with distinct ids.
CustomThemeLists ==
  {S \in SUBSET [id : CustomThemeIds, mainColor : ThemeColours] :
     \A s, t \in S : s.id = t.id => s = t}

\* Lines 452-457.
resolveThemeId(themeId) ==
  IF themeId = "neon-city-glass" THEN "neon-city" ELSE themeId

\* Lines 517-524.
isPremiumThemeId(themeId) == resolveThemeId(themeId) \in PremiumThemeIds

\* Map.prototype.get on a Map held as the set of its values.
mapGet(map, themeId) ==
  IF \E t \in map : t.id = themeId
    THEN CHOOSE t \in map : t.id = themeId
    ELSE Undefined

\* themes.forEach(theme => themeMap.set(theme.id, ...)) of lines 580-584 and
\* 588-590: an entry of the same id is replaced.
mapSetAll(map, themes) ==
  {t \in map : \A s \in themes : s.id # t.id} \cup themes

\* Lines 542-547: the Map getThemeMap builds.
BuiltThemeMap == {[id |-> b, mainColor |-> 0] : b \in BuiltInThemeIds}

\* Lines 572-585: the Map objects and _themeMap after
\* ensureCustomThemesLoaded; the Map it fills and captures is object 1.
ensuredObjects ==
  IF customThemesLoaded
    THEN themeMapObjects
    ELSE [themeMapObjects EXCEPT ![1] = mapSetAll(BuiltThemeMap, customThemes)]
ensuredThemeMap == IF customThemesLoaded THEN themeMap ELSE 1

\* Lines 539-550 after that: getThemeMap builds a new Map (object 2) when
\* _themeMap is null.
objectsAfterGet ==
  IF ensuredThemeMap = 0
    THEN [ensuredObjects EXCEPT ![2] = BuiltThemeMap]
    ELSE ensuredObjects
themeMapAfterGet == IF ensuredThemeMap = 0 THEN 2 ELSE ensuredThemeMap

\* What getTheme(themeId) returns when called now (lines 685-689).
getThemeResult(themeId) ==
  mapGet(objectsAfterGet[themeMapAfterGet], resolveThemeId(themeId))

\* Lines 685-689.
getTheme(themeId) ==
  /\ themeMapObjects' = objectsAfterGet
  /\ themeMap' = themeMapAfterGet
  /\ customThemesLoaded' = TRUE
  /\ returned' = getThemeResult(themeId)
  /\ UNCHANGED <<customThemes, appliedTheme, isGlassMode>>
  /\ UNCHANGED <<vocabVars, clock, activeGameVars, userAnswer, gauntletCore>>

\* Lines 600-650.
applyTheme(themeId) ==
  LET theme == getThemeResult(themeId)
  IN /\ themeMapObjects' = objectsAfterGet
     /\ themeMap' = themeMapAfterGet
     /\ customThemesLoaded' = TRUE
     /\ IF theme = Undefined
          THEN UNCHANGED <<appliedTheme, isGlassMode>>
          ELSE /\ isGlassMode' = isPremiumThemeId(resolveThemeId(themeId))
               /\ appliedTheme' = theme
     /\ UNCHANGED <<customThemes, returned>>
     /\ UNCHANGED <<vocabVars, clock, activeGameVars, userAnswer,
                    gauntletCore>>

\* An update of useCustomThemeStore, and the subscriber of lines 587-593
\* once it is subscribed.
customThemeStoreUpdate(themes) ==
  /\ themes # customThemes
  /\ customThemes' = themes
  /\ IF customThemesLoaded
       THEN /\ themeMapObjects' =
                 [themeMapObjects EXCEPT ![1] = mapSetAll(@, themes)]
            /\ themeMap' = 0
       ELSE UNCHANGED <<themeMapObjects, themeMap>>
  /\ UNCHANGED <<customThemesLoaded, appliedTheme, isGlassMode, returned>>
  /\ UNCHANGED <<vocabVars, clock, activeGameVars, userAnswer, gauntletCore>>

InitThemes ==
  /\ items = 0
  /\ repetitions = 1
  /\ isGauntletRoute = FALSE
  /\ difficulty = [lives |-> 1, regenerates |-> FALSE]
  /\ shuffleDraws = <<>>
  /\ AllCollaborators
  /\ FreshMount
  /\ VocabInputGameUnmounted

NextThemes ==
  \/ \E themeId \in QueryIds : getTheme(themeId)
  \/ \E themeId \in QueryIds : applyTheme(themeId)
  \/ \E themes \in CustomThemeLists : customThemeStoreUpdate(themes)

SpecThemes == InitThemes /\ [][NextThemes]_vars

\* C40: custom themes stay resolvable across store updates: whatever store
\* updates and getTheme/applyTheme calls came before, getTheme returns a
\* theme for every id now in the custom theme store and for every built-in
\* id; and applyTheme with an unknown id changes neither the DOM variables
\* nor the glass-mode preference.
C40_Resolvable ==
  \A themeId \in BuiltInThemeIds \cup {t.id : t \in customThemes} :
    getThemeResult(themeId) # Undefined

C40_UnknownStep ==
  \A themeId \in QueryIds :
    (/\ applyTheme(themeId)
     /\ resolveThemeId(themeId) \notin
          BuiltInThemeIds \cup {t.id : t \in customThemes})
      => UNCHANGED <<appliedTheme, isGlassMode>>

C40_ThemesStayResolvable == []C40_Resolvable /\ [][C40_UnknownStep]_vars

\* The built-in half of it.
C40_BuiltInResolvable ==
  \A themeId \in BuiltInThemeIds : getThemeResult(themeId) # Undefined


\* The applyTheme half of it.
C40_UnknownIdChangesNothing == [][C40_UnknownStep]_vars

====
